---------------------------- MODULE Spec2Model ----------------------------
(***************************************************************************)
(* Pix2Poly decode-and-assemble pipeline (src/utils.py).                   *)
(*                                                                         *)
(*   scores_to_permutations     utils.py  96-108   SpecAssign              *)
(*   bubble_merge               utils.py 116-132   SpecMerge               *)
(*   permutations_to_polygons   utils.py 112-183   SpecPoly                *)
(*   test_generate(_arno)       utils.py 185-271   SpecGen                 *)
(*   postprocess                utils.py 274-293   SpecPost                *)
(*   Tokenizer                  specification 4.1  SpecTok                 *)
(*   compute_IoU_cIoU           cIoU.py 33-99      SpecEval                *)
(*   compute_mask_metrics       topdig_metrics_orig.py 49-134  SpecEval    *)
(*                                                                         *)
(* Tensors are functions over 0-based index ranges, as in the source.      *)
(* Python lists are TLA+ sequences: position p of a sequence is index p-1  *)
(* of the list.  Vertex labels inside chains stay 0-based.                 *)
(***************************************************************************)
EXTENDS Integers, Sequences, FiniteSets, TLC

VARIABLES
    pc,             \* which function is running and where it stands
    scores,         \* scores_to_permutations: input tensor  B x N x N
    perm,           \* permutation tensor B x N x N (output of the solver)
    b,              \* loop index of "for b in range(B)"
    poly,           \* bubble_merge: the list of chains it is called with
    merged,         \* bubble_merge: the list it returns
    graph,          \* permutations_to_polygons: coordinates, B x N x 2
    out,            \* permutations_to_polygons: output format tag
    polygons_idx,   \* permutations_to_polygons: merged index chains per sample
    batch,          \* permutations_to_polygons: the list it returns
    batch_preds,    \* token sequences, one per sample (B x L)
    batch_confs,    \* list of per-step confidence vectors (each of size B)
    EOS_idxs,       \* postprocess: EOS index per sample
    all_coords,     \* postprocess: coordinates (or None) per sample
    all_confs,      \* postprocess: confidences (or None) per sample
    ii,             \* the loop variable i of postprocess and of the driver
    x_size,         \* x.size(0), the batch size of the driver's input
    driver,         \* which driver runs: test_generate or test_generate_arno
    top_k,          \* driver argument top_k
    top_p,          \* driver argument top_p, in percent (100 is 1.0)
    max_len,        \* driver argument max_len
    sample,         \* the sampling function bound before the loop
    calls,          \* number of calls of the predictor so far
    preds,          \* filtered logits of the current step, per sample
    feats,          \* feature output of the latest predictor call
    caller,         \* which inference script runs the pipeline
    predictions,    \* per sample, the rings handed to generate_coco_ann
    vertices,       \* tokenizer: the vertices given to encode
    capacity,       \* tokenizer: max_len, the length of an encoded sequence
    encoded,        \* tokenizer: the sequence encode returns
    decoded,        \* tokenizer: the vertices decode returns
    work,           \* bubble_merge, step by step: the list object poly
    frames,         \* bubble_merge, step by step: the locals of every open call
    splices,        \* bubble_merge, step by step: splices made so far
    evalfn,         \* evaluation: which function runs
    images,         \* evaluation: the images of the loop, with their annotations
    img_at,         \* evaluation: position of the loop in the images
    mask_dt,        \* evaluation: the local variable mask (prediction side)
    mask_gti,       \* evaluation: the local variable mask_gti
    scored          \* evaluation: per scored image, the masks handed to the metric

polyvars == <<poly, merged, graph, out, polygons_idx, batch>>
postvars == <<EOS_idxs, all_coords, all_confs>>
seqvars  == <<batch_preds, batch_confs, ii>>
genvars  == <<x_size, driver, top_k, top_p, max_len, sample, calls, preds, feats>>

pipevars == <<caller, predictions>>

tokvars  == <<vertices, capacity, encoded, decoded>>

\* the variables of the functions added after the pipeline
stepvars == <<work, frames, splices>>
evalvars == <<evalfn, images, img_at, mask_dt, mask_gti, scored>>
restvars == <<tokvars, stepvars, evalvars>>

vars == <<pc, scores, perm, b, polyvars, postvars, seqvars, genvars, pipevars, restvars>>

\* values of the variables a function does not use
Idle == <<>>

GenIdle ==
    /\ x_size = Idle /\ driver = Idle /\ top_k = Idle /\ top_p = Idle /\ max_len = Idle
    /\ sample = Idle /\ calls = Idle /\ preds = Idle /\ feats = Idle

PipeIdle == caller = Idle /\ predictions = Idle

TokIdle == vertices = Idle /\ capacity = Idle /\ encoded = Idle /\ decoded = Idle

StepIdle == work = Idle /\ frames = Idle /\ splices = Idle

EvalIdle ==
    /\ evalfn = Idle /\ images = Idle /\ img_at = Idle
    /\ mask_dt = Idle /\ mask_gti = Idle /\ scored = Idle

RestIdle == TokIdle /\ StepIdle /\ EvalIdle

---------------------------------------------------------------------------
(* Generic helpers *)

Range(n) == 0 .. (n - 1)

RECURSIVE SumOver(_, _)
SumOver(S, f) ==
    IF S = {} THEN 0
    ELSE LET x == CHOOSE y \in S : TRUE
         IN  f[x] + SumOver(S \ {x}, f)

\* all orderings of the elements of S, as sequences
RECURSIVE Orderings(_)
Orderings(S) ==
    IF S = {} THEN { <<>> }
    ELSE UNION { { <<x>> \o q : q \in Orderings(S \ {x}) } : x \in S }

\* All bijections of 0..n-1, as functions
Bijections(n) == { [i \in Range(n) |-> q[i + 1]] : q \in Orderings(Range(n)) }

---------------------------------------------------------------------------
(* scores_to_permutations, utils.py 96-108 *)

MaxBatch == 2           \* largest batch size B
MaxCells == 9           \* largest score tensor:  B * N * N <= MaxCells
ScoreVals == {0, 1, 2}  \* entries a score matrix is drawn from

\* shapes (B, N) of the input: "B, N, N = scores.shape"
AssignShapes ==
    { sh \in (1 .. MaxBatch) \X (1 .. MaxCells) : sh[1] * sh[2] * sh[2] <= MaxCells }

Matrices(n, vals) == [Range(n) -> [Range(n) -> vals]]

\* -scores[b]
NegKeep(m, n) == [i \in Range(n) |-> [j \in Range(n) |-> m[i][j]]]
Neg(m, n) == [i \in Range(n) |-> [j \in Range(n) |-> 0 - m[i][j]]]

\* total cost of the assignment row i -> column c[i]
AssignCost(cost, n, c) == SumOver(Range(n), [i \in Range(n) |-> cost[i][c[i]]])

\* scipy.optimize.linear_sum_assignment(cost) on a square matrix: row indices
\* 0..n-1 in order and a column assignment of minimum total cost.  Which of
\* several optimal assignments the library returns is not fixed here: every
\* one of them is a possible result.
linear_sum_assignment(cost, n) ==
    { rc \in { <<[i \in Range(n) |-> i], c>> : c \in Bijections(n) } :
        \A d \in Bijections(n) : AssignCost(cost, n, rc[2]) <= AssignCost(cost, n, d) }

\* np.zeros_like(scores)[b]
Zeros(n) == [i \in Range(n) |-> [j \in Range(n) |-> 0]]

\* perm[b, r, c] = 1 : entry (r[k], c[k]) of the slice is set for every k
SetOnesRows(slice, n, r, c) ==
    [i \in Range(n) |-> [j \in Range(n) |->
        IF \E k \in Range(n) : r[k] = i THEN 1 ELSE slice[i][j]]]
SetOnes(slice, n, r, c) ==
    [i \in Range(n) |-> [j \in Range(n) |->
        IF \E k \in Range(n) : r[k] = i /\ c[k] = j THEN 1 ELSE slice[i][j]]]

BatchOf(t) == Cardinality(DOMAIN t)
SlotsOf(t) == Cardinality(DOMAIN t[0])

\* state on entry: the caller's score tensor, perm = np.zeros_like(scores)
InitAssign ==
    /\ pc = "assign"
    /\ \E sh \in AssignShapes :
          /\ scores \in [Range(sh[1]) -> Matrices(sh[2], ScoreVals)]
          /\ perm = [s \in Range(sh[1]) |-> Zeros(sh[2])]
    /\ b = 0
    /\ poly = Idle /\ merged = Idle
    /\ graph = Idle /\ out = Idle /\ polygons_idx = Idle /\ batch = Idle
    /\ EOS_idxs = Idle /\ all_coords = Idle /\ all_confs = Idle
    /\ batch_preds = Idle /\ batch_confs = Idle /\ ii = 0
    /\ GenIdle
    /\ PipeIdle
    /\ RestIdle

\* one iteration of "for b in range(B)": lines 105-107
AssignSample ==
    /\ pc = "assign"
    /\ b < BatchOf(scores)
    /\ LET n == SlotsOf(scores)
       IN  \E rc \in linear_sum_assignment(Neg(scores[b], n), n) :
              perm' = [perm EXCEPT ![b] = SetOnes(perm[b], n, rc[1], rc[2])]
    /\ b' = b + 1
    /\ UNCHANGED <<pc, scores, polyvars, postvars, seqvars, genvars, pipevars, restvars>>

\* loop exit and "return torch.tensor(perm)", line 108
AssignReturn ==
    /\ pc = "assign"
    /\ b = BatchOf(scores)
    /\ pc' = "assign_done"
    /\ UNCHANGED <<scores, perm, b, polyvars, postvars, seqvars, genvars, pipevars, restvars>>

NextAssign == AssignSample \/ AssignReturn

SpecAssign == InitAssign /\ [][NextAssign]_vars

---------------------------------------------------------------------------
(* Claims on scores_to_permutations *)

IsZeroOne(m, n) == \A i, j \in Range(n) : m[i][j] \in {0, 1}
OnePerRow(m, n) == \A i \in Range(n) : Cardinality({ j \in Range(n) : m[i][j] = 1 }) = 1
OnePerCol(m, n) == \A j \in Range(n) : Cardinality({ i \in Range(n) : m[i][j] = 1 }) = 1

\* C1: when scores_to_permutations returns, every sample's matrix is 0/1
\* with exactly one 1 in every row and exactly one 1 in every column.
C1_AssignmentBijection ==
    pc = "assign_done" =>
        \A s \in Range(BatchOf(perm)) :
            LET n == SlotsOf(perm)
            IN  IsZeroOne(perm[s], n) /\ OnePerRow(perm[s], n) /\ OnePerCol(perm[s], n)

\* a returned batch of two samples of 2x2 matrices where the second sample
\* is assigned off the diagonal
C1_Witness ==
    /\ pc = "assign_done"
    /\ BatchOf(perm) = 2 /\ SlotsOf(perm) = 2
    /\ perm[1][0][1] = 1
    /\ perm[0][0][0] = 1

\* sum of the scores at the entries the returned matrix marks with 1
AssignedScore(m, sc, n) ==
    SumOver(Range(n) \X Range(n),
            [ij \in Range(n) \X Range(n) |-> m[ij[1]][ij[2]] * sc[ij[1]][ij[2]]])

\* brute force: the largest total over all n! bijections
BruteForceMax(sc, n) ==
    LET totals == { AssignCost(sc, n, c) : c \in Bijections(n) }
    IN  CHOOSE t \in totals : \A u \in totals : u <= t

\* C2: the total score of the returned assignment equals the brute-force
\* maximum of sum_i score[i][sigma(i)] over all bijections sigma.
C2_AssignmentOptimal ==
    pc = "assign_done" =>
        \A s \in Range(BatchOf(perm)) :
            AssignedScore(perm[s], scores[s], SlotsOf(perm))
                = BruteForceMax(scores[s], SlotsOf(scores))

\* a returned 3x3 sample where the row-wise greedy choice (2 at (0,0)) is
\* not optimal: the optimum 5 = 2 + 2 + 1 avoids it
C2_Witness ==
    /\ pc = "assign_done"
    /\ SlotsOf(scores) = 3
    /\ scores[0] = (0 :> (0 :> 2 @@ 1 :> 2 @@ 2 :> 0)
                 @@ 1 :> (0 :> 2 @@ 1 :> 0 @@ 2 :> 0)
                 @@ 2 :> (0 :> 0 @@ 1 :> 0 @@ 2 :> 1))
    /\ perm[0][0][1] = 1 /\ perm[0][1][0] = 1 /\ perm[0][2][2] = 1

---------------------------------------------------------------------------
(* bubble_merge, utils.py 116-132 *)

MaxChains == 5          \* largest number of chains handed to bubble_merge

\* the first element of a chain instead of its last
FirstOf(c) == c[1]

\* poly[s][-1]
Last(c) == c[Len(c)]

\* poly[s] = poly[s] + poly[t][1:]
SpliceWhole(lst, s, t) == [lst EXCEPT ![s + 1] = lst[s + 1] \o lst[t + 1]]
Splice(lst, s, t) == [lst EXCEPT ![s + 1] = lst[s + 1] \o Tail(lst[t + 1])]

\* the spliced chain is left in the list
DelAtKeep(lst, t) == lst

\* del poly[t]
DelAt(lst, t) == SubSeq(lst, 1, t) \o SubSeq(lst, t + 2, Len(lst))

RECURSIVE bubble_merge(_), bm_outer(_, _), bm_inner(_, _, _, _)
RECURSIVE bm_inner_norestart(_, _, _, _)

\* the inner loop without line 128: no rescan after a splice
bm_inner_norestart(lst, s, t, head) ==
    IF t < Len(lst)
    THEN IF head = Head(lst[t + 1])
         THEN bm_inner_norestart(DelAt(Splice(lst, s, t), t), s, t + 1, head)
         ELSE bm_inner_norestart(lst, s, t + 1, head)
    ELSE lst

\* "while t < P" (lines 123-130) from index t on, for the chain at index s.
\* The list is one object shared by all recursive calls, and every caller
\* re-reads P = len(poly) when its call returns, so P is Len(lst) at each test.
\* head is read once per s (line 120) and is not re-read after a splice.
bm_inner(lst, s, t, head) ==
    IF t < Len(lst)
    THEN IF head = Head(lst[t + 1])
         THEN bm_inner(bubble_merge(DelAt(Splice(lst, s, t), t)), s, t + 1, head)
         ELSE bm_inner(lst, s, t + 1, head)
    ELSE lst

\* the outer loop left out: nothing is merged
bm_outer_skip(lst, s) == lst

\* "while s < P" (lines 119-131) from index s on
bm_outer(lst, s) ==
    IF s < Len(lst)
    THEN bm_outer(bm_inner(lst, s, s + 1, Last(lst[s + 1])), s + 1)
    ELSE lst

\* poly is a Python list: SubSeq gives the list as an explicit sequence
bubble_merge(lst) == bm_outer(SubSeq(lst, 1, Len(lst)), 0)

\* successor functions a permutation matrix gives on its K active slots:
\* bijections of 0..K-1 without fixed point
Derangements(k) == { f \in Bijections(k) : \A i \in Range(k) : f[i] # i }

\* the chains of line 153 listed from the last slot to the first
SuccessorChainsDescending(succ, k) == [p \in 1 .. k |-> <<k - p, succ[k - p]>>]

\* [[0, succ(0)], [1, succ(1)], ...], the list of line 153
SuccessorChains(succ, k) == [p \in 1 .. k |-> <<p - 1, succ[p - 1]>>]

\* the same chains listed in the order ord
Reordered(chains, ord, k) == [p \in 1 .. k |-> chains[ord[p - 1] + 1]]

\* bubble_merge called on the successor chains of a permutation, listed in
\* any order
InitMerge ==
    /\ pc = "merge"
    /\ \E k \in 2 .. MaxChains :
          \E succ \in Derangements(k) :
             \E ord \in Bijections(k) :
                poly = Reordered(SuccessorChains(succ, k), ord, k)
    /\ merged = Idle
    /\ scores = Idle /\ perm = Idle /\ b = 0
    /\ graph = Idle /\ out = Idle /\ polygons_idx = Idle /\ batch = Idle
    /\ EOS_idxs = Idle /\ all_coords = Idle /\ all_confs = Idle
    /\ batch_preds = Idle /\ batch_confs = Idle /\ ii = 0
    /\ GenIdle
    /\ PipeIdle
    /\ RestIdle

\* polygons_idx = bubble_merge(polygons_idx), line 154
MergeCall ==
    /\ pc = "merge"
    /\ merged' = bubble_merge(poly)
    /\ pc' = "merge_done"
    /\ UNCHANGED <<scores, perm, b, poly, graph, out, polygons_idx, batch,
                   postvars, seqvars, genvars, pipevars, restvars>>

NextMerge == MergeCall

SpecMerge == InitMerge /\ [][NextMerge]_vars

---------------------------------------------------------------------------
(* Claims on bubble_merge *)

ElemsOf(c) == { c[p] : p \in 1 .. Len(c) }
VertexSets(chains) == { ElemsOf(chains[p]) : p \in 1 .. Len(chains) }
ChainSet(chains) == ElemsOf(chains)

\* directed edges (vertex, next vertex) along a chain: the same for every
\* rotation of a closed ring
EdgesOf(c) == { <<c[p], c[p + 1]>> : p \in 1 .. (Len(c) - 1) }
RingSet(chains) == { EdgesOf(chains[p]) : p \in 1 .. Len(chains) }

ScenarioChains == << <<0, 1>>, <<1, 2>>, <<2, 0>>, <<3, 4>>, <<4, 3>> >>
IsScenarioOrder(p) == Len(p) = 5 /\ ChainSet(p) = ChainSet(ScenarioChains)

\* C4: the chains [0,1],[1,2],[2,0],[3,4],[4,3] in any order merge into
\* exactly two rings, with vertex sets {0,1,2} and {3,4}.
C4_ScenarioTwoRings ==
    (pc = "merge_done" /\ IsScenarioOrder(poly)) =>
        /\ Len(merged) = 2
        /\ VertexSets(merged) = { {0, 1, 2}, {3, 4} }

\* the scenario merged from an order in which no chain is followed by its
\* successor chain
C4_Witness ==
    /\ pc = "merge_done"
    /\ poly = << <<4, 3>>, <<2, 0>>, <<1, 2>>, <<3, 4>>, <<0, 1>> >>
    /\ Len(merged) = 2

\* the list in the order line 153 builds it: sorted by first vertex
CodeOrder(p) ==
    [q \in 1 .. Len(p) |-> CHOOSE c \in ChainSet(p) : c[1] = q - 1]

\* C5 as stated: the set of merged chains does not depend on the order of
\* the initial chains.
C5_SameChainsAnyOrder ==
    pc = "merge_done" => ChainSet(merged) = ChainSet(bubble_merge(CodeOrder(poly)))

\* C5 amended: for the successor chains of a permutation, every order gives
\* the same rings up to the choice of each ring's starting vertex (the same
\* sets of directed edges) and the same number of rings.
C5_SameRingsAnyOrder ==
    pc = "merge_done" =>
        LET ref == bubble_merge(CodeOrder(poly))
        IN  /\ RingSet(merged) = RingSet(ref)
            /\ Len(merged) = Len(ref)
            /\ \A p \in 1 .. Len(merged) : merged[p][1] = Last(merged[p])

\* a reordered list whose result differs from the code-order result as a
\* list of chains
C5_Witness ==
    /\ pc = "merge_done"
    /\ poly # CodeOrder(poly)
    /\ Len(poly) = 5
    /\ merged # bubble_merge(CodeOrder(poly))

---------------------------------------------------------------------------
(* permutations_to_polygons, utils.py 112-183 *)

MaxSlots == 6           \* largest N of a permutation tensor B x N x N
MaxSlotsTotal == 6      \* largest permutation batch:  B * N <= MaxSlotsTotal
PadCoord == 999         \* stand-in for the pad value that fills unused rows of graph

PolyShapes ==
    { sh \in (1 .. MaxBatch) \X (1 .. MaxSlots) : sh[1] * sh[2] <= MaxSlotsTotal }

\* the matrices scores_to_permutations returns
PermMatrix(f, n) == [i \in Range(n) |-> [j \in Range(n) |-> IF f[i] = j THEN 1 ELSE 0]]
PermMatrices(n) == { PermMatrix(f, n) : f \in Bijections(n) }

\* graph[b] as the callers build it (predict.py 147-156): nv decoded
\* vertices, then pad rows up to N
VertexCoord(i) == <<10 * (i + 1), 10 * (i + 1) + 5>>
GraphRows(n, nv) ==
    [i \in Range(n) |-> IF i < nv THEN VertexCoord(i) ELSE <<PadCoord, PadCoord>>]

\* how many slots of a sample hold a decoded vertex: none (a sample that
\* postprocess rejected), half of them, all of them
GraphFills(n) == {0, n \div 2, n}

ValidOuts == {"torch", "numpy", "list", "coco", "inria-torch"}
OutTags == ValidOuts \cup {"geojson"}

\* line 134: diag = logical_not(perm[:, range(N), range(N)])
DiagNoNot(m, n) == [i \in Range(n) |-> m[i][i] # 0]
Diag(m, n) == [i \in Range(n) |-> m[i][i] = 0]

\* line 141: idx = arange(N)[b_diag], the active slots in ascending order
RECURSIVE ActiveFrom(_, _, _)
ActiveFrom(d, n, i) ==
    IF i >= n THEN <<>>
    ELSE (IF d[i] THEN <<i>> ELSE <<>>) \o ActiveFrom(d, n, i + 1)
ActiveIdxAll(d, n) == [i \in 1 .. n |-> i - 1]
ActiveIdx(d, n) == ActiveFrom(d, n, 0)

\* the leading rows and columns instead of the rows and columns idx
RestrictLeading(m, idx) ==
    [i \in Range(Len(idx)) |-> [j \in Range(Len(idx)) |-> m[i][j]]]

\* lines 146-148: rows idx and columns idx of a matrix; rows idx of graph
Restrict(m, idx) ==
    [i \in Range(Len(idx)) |-> [j \in Range(Len(idx)) |-> m[idx[i + 1]][idx[j + 1]]]]
RestrictRows(g, idx) == [i \in Range(Len(idx)) |-> g[idx[i + 1]]]

\* torch.argmax of one row: the first index holding the largest value
ArgMax(row, k) ==
    CHOOSE j \in Range(k) :
        /\ \A l \in Range(k) : row[l] <= row[j]
        /\ \A l \in Range(k) : l < j => row[l] < row[j]

\* argmax along dim=0: the largest entry of each column
SuccessorDim0(m, k) == [i \in Range(k) |-> ArgMax([l \in Range(k) |-> m[l][i]], k)]
\* line 151: second = torch.argmax(b_perm, dim=1)
Successor(m, k) == [i \in Range(k) |-> ArgMax(m[i], k)]

\* b_graph[p_idx, :]
Gather(g, p_idx) == [q \in 1 .. Len(p_idx) |-> g[p_idx[q]]]

\* a value v * 300 / 320, kept exact as numerator and denominator
Scaled(v) == <<v * 300, 320>>

RECURSIVE Flatten(_)
Flatten(rows) ==
    IF rows = <<>> THEN <<>> ELSE Head(rows) \o Flatten(Tail(rows))

\* the conventions, with 'list' leaving out the closing vertex of the ring
EmitListOpen(o, g, p_idx) ==
    LET ring == Gather(g, IF o = "list" THEN SubSeq(p_idx, 1, Len(p_idx) - 1) ELSE p_idx)
    IN  CASE o \in {"torch", "numpy", "inria-torch"} -> ring
          [] o = "list" ->
                [q \in 1 .. Len(ring) |->
                    <<Scaled(ring[q][2]), Scaled(0 - ring[q][1])>>]
          [] o = "coco" ->
                Flatten([q \in 1 .. Len(ring) |-> <<ring[q][2], ring[q][1]>>])

\* lines 158-172: one ring in the output convention out
Emit(o, g, p_idx) ==
    LET ring == Gather(g, p_idx)
    IN  CASE o \in {"torch", "numpy", "inria-torch"} -> ring
          [] o = "list" ->
                [q \in 1 .. Len(ring) |->
                    <<Scaled(ring[q][2]), Scaled(0 - ring[q][1])>>]
          [] o = "coco" ->
                Flatten([q \in 1 .. Len(ring) |-> <<ring[q][2], ring[q][1]>>])

\* lines 156-172: every ring of one sample
EmitAll(o, g, chains) == [r \in 1 .. Len(chains) |-> Emit(o, g, chains[r])]

\* the chains of line 153 without the merge of line 154
SampleChainsUnmerged(m, n) ==
    LET idx == ActiveIdx(Diag(m, n), n)
        k   == Len(idx)
    IN  IF k > 0
        THEN SuccessorChains(Successor(Restrict(m, idx), k), k)
        ELSE <<>>

\* lines 150-154 for one sample: the merged index chains of its active slots
SampleChains(m, n) ==
    LET idx == ActiveIdx(Diag(m, n), n)
        k   == Len(idx)
    IN  IF k > 0
        THEN bubble_merge(SuccessorChains(Successor(Restrict(m, idx), k), k))
        ELSE <<>>

InitPoly ==
    /\ pc = "poly"
    /\ \E sh \in PolyShapes :
          /\ perm \in [Range(sh[1]) -> PermMatrices(sh[2])]
          /\ \E nv \in [Range(sh[1]) -> GraphFills(sh[2])] :
                graph = [s \in Range(sh[1]) |-> GraphRows(sh[2], nv[s])]
    /\ out \in OutTags
    /\ b = 0
    /\ batch = <<>>
    /\ polygons_idx = <<>>
    /\ scores = Idle /\ poly = Idle /\ merged = Idle
    /\ EOS_idxs = Idle /\ all_coords = Idle /\ all_confs = Idle
    /\ batch_preds = Idle /\ batch_confs = Idle /\ ii = 0
    /\ GenIdle
    /\ PipeIdle
    /\ RestIdle

\* one iteration of "for b in range(B)", lines 136-181
PolySample ==
    /\ pc = "poly"
    /\ b < BatchOf(perm)
    /\ LET n      == SlotsOf(perm)
           idx    == ActiveIdx(Diag(perm[b], n), n)
           chains == SampleChains(perm[b], n)
       IN  IF Len(idx) > 0 /\ Len(chains) > 0 /\ out \notin ValidOuts
           THEN \* lines 173-175: print and exit()
                /\ pc' = "poly_exit"
                /\ UNCHANGED <<b, batch, polygons_idx>>
           ELSE /\ batch' = Append(batch,
                                   EmitAll(out, RestrictRows(graph[b], idx), chains))
                /\ polygons_idx' = Append(polygons_idx, chains)
                /\ b' = b + 1
                /\ pc' = pc
    /\ UNCHANGED <<scores, perm, poly, merged, graph, out, postvars, seqvars, genvars, pipevars, restvars>>

\* line 183: return batch
PolyReturn ==
    /\ pc = "poly"
    /\ b = BatchOf(perm)
    /\ pc' = "poly_done"
    /\ UNCHANGED <<scores, perm, b, polyvars, postvars, seqvars, genvars, pipevars, restvars>>

NextPoly == PolySample \/ PolyReturn

SpecPoly == InitPoly /\ [][NextPoly]_vars

---------------------------------------------------------------------------
(* Claims on permutations_to_polygons *)

\* the permutation matrix of the single cycle 0 -> 1 -> 2 -> 3 -> 0
Cycle4 == PermMatrix([i \in Range(4) |-> (i + 1) % 4], 4)

IsScenarioA(s) ==
    /\ pc = "poly_done"
    /\ s \in Range(BatchOf(perm))
    /\ SlotsOf(perm) = 4
    /\ perm[s] = Cycle4

\* C3 as stated: scenario A yields exactly one ring and that ring is
\* [0,1,2,3].
C3_RingIsFourSlots ==
    \A s \in Range(MaxBatch) :
        IsScenarioA(s) =>
            /\ Len(batch[s + 1]) = 1
            /\ polygons_idx[s + 1] = << <<0, 1, 2, 3>> >>

\* C3 amended: scenario A yields exactly one ring, and that ring is the
\* slots 0,1,2,3 in cycle order followed by slot 0 again (closed by
\* repeating its first vertex): five entries.
C3_RingIsClosedCycle ==
    \A s \in Range(MaxBatch) :
        IsScenarioA(s) =>
            /\ Len(batch[s + 1]) = 1
            /\ polygons_idx[s + 1] = << <<0, 1, 2, 3, 0>> >>
            /\ out \in {"torch", "numpy", "inria-torch"} =>
                  batch[s + 1][1] = Gather(graph[s], <<0, 1, 2, 3, 0>>)

C3_Witness ==
    /\ IsScenarioA(0)
    /\ out = "torch"
    /\ Len(batch[1][1]) = 5

---------------------------------------------------------------------------
(* Tokenizer: vocabulary and decode.  tokenizer.py is not among the source *)
(* files; these definitions follow the specification, sections 3 and 4.1. *)

NumBins == 2            \* NUM_BINS: bins 0 .. NumBins-1 (224 in config.py)
BinWidth == 2           \* image_size / NUM_BINS, pixels per bin

PAD_code == NumBins
BOS_code == NumBins + 1
EOS_code == NumBins + 2
Tokens == 0 .. (NumBins + 2)

\* decode: pairs of tokens from index 1 on, up to the first EOS or the end;
\* each bin index becomes bin_index * (image_size / NUM_BINS)
RECURSIVE DecodeFrom(_, _)
DecodeFrom(toks, pos) ==
    IF pos + 1 > Len(toks) \/ toks[pos] = EOS_code
    THEN <<>>
    ELSE << <<toks[pos] * BinWidth, toks[pos + 1] * BinWidth>> >>
            \o DecodeFrom(toks, pos + 2)
Decode(toks) == DecodeFrom(toks, 2)

---------------------------------------------------------------------------
(* postprocess, utils.py 274-293 *)

MaxVertices == 2        \* largest n_vertices
MaxTokens == 6          \* largest batch of generated tokens: B * (L - 1)

\* an entry of all_coords / all_confs: Python's None, or a list
None == [is_none |-> TRUE, list |-> <<>>]
Some(l) == [is_none |-> FALSE, list |-> l]

\* a generation length that leaves no room for the start token
generation_steps_full(n_vertices) == n_vertices * 2 + 2

\* cfg.model.tokenizer.max_len and generation_steps, utils.py 20-21
max_len_of(n_vertices) == n_vertices * 2 + 2
generation_steps_of(n_vertices) == n_vertices * 2 + 1

\* (B, n_vertices) of a batch
PostShapes ==
    { sh \in (1 .. MaxBatch) \X (0 .. MaxVertices) :
        sh[1] * generation_steps_of(sh[2]) <= MaxTokens }

\* sequences a driver run of the given number of steps can return: BOS,
\* then one token of the vocabulary per step
Generated(steps) ==
    { <<BOS_code>> \o q : q \in [1 .. steps -> Tokens] }

\* a confidence with four decimals, in units of 1/10000: the entry of step
\* 2*j for sample s
ConfValue(j, s) == 9000 - 1234 * j - 3 * s

\* round(x, 3): from units of 1/10000 to units of 1/1000
Round3(v) == (v + 5) \div 10

\* line 275: (batch_preds == EOS_code).float().argmax(dim=-1), the first
\* index holding the largest value of the 0/1 mask
EosMask(seq) == [j \in Range(Len(seq)) |-> IF seq[j + 1] = EOS_code THEN 1 ELSE 0]

\* the last index holding the largest value instead of the first
ArgMaxOfLast(mask, len) ==
    CHOOSE j \in Range(len) :
        /\ \A l \in Range(len) : mask[l] <= mask[j]
        /\ \A l \in Range(len) : l > j => mask[l] < mask[j]

ArgMaxOf(mask, len) == ArgMax(mask, len)

\* lines 277-278: (EOS_idx - 1) % 2 != 0 marks the index invalid; it is set to 0
InvalidIdxNoOffset(e) == e % 2 # 0
InvalidIdx(e) == (e - 1) % 2 # 0

\* line 283: the sample is skipped
SkippedUpToOne(e) == e <= 1
Skipped(e) == e = 0

\* line 287: batch_preds[i, :EOS_idx+1]
Prefix(seq, e) == SubSeq(seq, 1, e + 1)

\* the confidences of the steps after the ones that produced the vertices
PickConfsNext(cf, s, k) == [j \in 1 .. k |-> Round3(cf[IF j < Len(cf) THEN j + 1 ELSE j][s])]

\* line 288: [round(batch_confs[j][i].item(), 3) for j in range(len(coords))]
PickConfs(cf, s, k) == [j \in 1 .. k |-> Round3(cf[j][s])]

InitPost ==
    /\ pc = "post"
    /\ \E sh \in PostShapes :
          /\ batch_preds \in [Range(sh[1]) -> Generated(generation_steps_of(sh[2]))]
          /\ batch_confs = [j \in 1 .. (sh[2] + 1) |->
                               [s \in Range(sh[1]) |-> ConfValue(j - 1, s)]]
    /\ EOS_idxs = Idle
    /\ all_coords = <<>>
    /\ all_confs = <<>>
    /\ ii = 0
    /\ scores = Idle /\ perm = Idle /\ b = 0
    /\ poly = Idle /\ merged = Idle
    /\ graph = Idle /\ out = Idle /\ polygons_idx = Idle /\ batch = Idle
    /\ GenIdle
    /\ PipeIdle
    /\ RestIdle

\* lines 275-278
PostEosIdxs ==
    /\ pc = "post"
    /\ EOS_idxs' =
          [s \in Range(BatchOf(batch_preds)) |->
              LET e == ArgMaxOf(EosMask(batch_preds[s]), Len(batch_preds[s]))
              IN  IF InvalidIdx(e) THEN 0 ELSE e]
    /\ pc' = "post_loop"
    /\ UNCHANGED <<scores, perm, b, polyvars, all_coords, all_confs, seqvars, genvars, pipevars, restvars>>

\* one iteration of "for i, EOS_idx in enumerate(EOS_idxs.tolist())"
PostSample ==
    /\ pc = "post_loop"
    /\ ii < BatchOf(batch_preds)
    /\ IF Skipped(EOS_idxs[ii])
       THEN /\ all_coords' = Append(all_coords, None)
            /\ all_confs' = Append(all_confs, None)
       ELSE LET coords == Decode(Prefix(batch_preds[ii], EOS_idxs[ii]))
            IN  /\ all_coords' = Append(all_coords, Some(coords))
                /\ all_confs' = Append(all_confs,
                                       Some(PickConfs(batch_confs, ii, Len(coords))))
    /\ ii' = ii + 1
    /\ UNCHANGED <<pc, scores, perm, b, polyvars, EOS_idxs, batch_preds, batch_confs, genvars, pipevars, restvars>>

\* line 293
PostReturn ==
    /\ pc = "post_loop"
    /\ ii = BatchOf(batch_preds)
    /\ pc' = "post_done"
    /\ UNCHANGED <<scores, perm, b, polyvars, postvars, seqvars, genvars, pipevars, restvars>>

NextPost == PostEosIdxs \/ PostSample \/ PostReturn

SpecPost == InitPost /\ [][NextPost]_vars

---------------------------------------------------------------------------
(* Claims on postprocess *)

\* the first index at which the token equals EOS, 0 when there is none
FirstEOS(seq) ==
    LET at == { j \in Range(Len(seq)) : seq[j + 1] = EOS_code }
    IN  IF at = {} THEN 0 ELSE CHOOSE j \in at : \A l \in at : j <= l

\* samples whose loop iteration has run
Processed(s) ==
    /\ pc \in {"post_loop", "post_done"}
    /\ s \in Range(BatchOf(batch_preds))
    /\ s < ii

\* C6: a sample gets (None, None) iff its first EOS index (0 when it has no
\* EOS) is even; every sample whose first EOS is at an odd index is decoded.
C6_NoneIffEvenEOS ==
    \A s \in Range(MaxBatch) :
        Processed(s) =>
            /\ (all_coords[s + 1] = None) <=> (FirstEOS(batch_preds[s]) % 2 = 0)
            /\ (all_confs[s + 1] = None) <=> (FirstEOS(batch_preds[s]) % 2 = 0)

\* a returned batch with one sample whose first EOS is at the even index 2
\* (rejected) and one whose first EOS is at the odd index 1 (decoded) and
\* which has a second EOS later
C6_Witness ==
    /\ pc = "post_done"
    /\ BatchOf(batch_preds) = 2
    /\ FirstEOS(batch_preds[0]) = 2 /\ all_coords[1] = None
    /\ FirstEOS(batch_preds[1]) = 1 /\ all_coords[2] # None
    /\ Cardinality({ j \in Range(Len(batch_preds[1])) : batch_preds[1][j + 1] = EOS_code }) = 2

\* BOS, k pairs of bin tokens, EOS, then PAD up to the end
WellFormed(seq, k) ==
    /\ Len(seq) >= 2 * k + 2
    /\ seq[1] = BOS_code
    /\ \A q \in 2 .. (2 * k + 1) : seq[q] \in Range(NumBins)
    /\ seq[2 * k + 2] = EOS_code
    /\ \A q \in (2 * k + 3) .. Len(seq) : seq[q] = PAD_code

\* n_vertices of the run that produced the batch: L = 2 * n_vertices + 2
NVertices == (Len(batch_preds[0]) - 2) \div 2

\* C7: a sample built as BOS, k pairs of bin tokens, EOS, padding, for any
\* k in 0 .. N_VERTICES, is decoded into exactly k coordinates: those of
\* its k pairs, in order.
C7_RecoversKVertices ==
    \A s \in Range(MaxBatch) : \A k \in 0 .. MaxVertices + 1 :
        (Processed(s) /\ k <= NVertices /\ WellFormed(batch_preds[s], k)) =>
            /\ all_coords[s + 1] # None
            /\ Len(all_coords[s + 1].list) = k
            /\ \A v \in 1 .. k :
                  all_coords[s + 1].list[v] = <<batch_preds[s][2 * v] * BinWidth,
                                           batch_preds[s][2 * v + 1] * BinWidth>>

\* a returned batch with n_vertices = 1 holding the empty sample (k = 0, EOS
\* at index 1) and the full sample (k = N_VERTICES, EOS at the last index)
C7_Witness ==
    /\ pc = "post_done"
    /\ BatchOf(batch_preds) = 2 /\ NVertices = 1
    /\ WellFormed(batch_preds[0], 0) /\ all_coords[1] = Some(<<>>)
    /\ WellFormed(batch_preds[1], 1) /\ Len(all_coords[2].list) = 1


(***************************************************************************)
(* top_k_top_p_filtering, softmax and the two sampling functions of the    *)
(* drivers (utils.py lines 246-249 and 257-261).  Logits are small         *)
(* integers, NegInf stands for the filter value -inf, a probability is the *)
(* pair <<weight, sum of weights>> with weight Exp(l) = 2^l.               *)
(***************************************************************************)
NegInf == -1000

Exp(l) == IF l = NegInf THEN 0 ELSE 2 ^ l

Min2(x, y) == IF x < y THEN x ELSE y
Max2(x, y) == IF x > y THEN x ELSE y

\* torch.topk(logits, k)[0][..., -1]: the k-th largest logit
KthLargest(lg, k) ==
    CHOOSE v \in {lg[t] : t \in Tokens} :
        /\ Cardinality({t \in Tokens : lg[t] > v}) < k
        /\ Cardinality({t \in Tokens : lg[t] >= v}) >= k

\* the top-k part of the filter: logits below the k-th largest are removed
TopK(lg, k) ==
    IF k > 0
    THEN LET kth == KthLargest(lg, Min2(Max2(k, 1), Cardinality(Tokens)))
         IN  [t \in Tokens |-> IF lg[t] < kth THEN NegInf ELSE lg[t]]
    ELSE lg

\* the orders torch.sort(descending=True) may return: ties in any order
DescOrders(lg) ==
    {q \in Orderings(Tokens) :
        \A x \in 1 .. Len(q) - 1 : lg[q[x]] >= lg[q[x + 1]]}

RECURSIVE CumWeight(_, _, _)
CumWeight(lg, ord, upto) ==
    IF upto = 0 THEN 0
    ELSE Exp(lg[ord[upto]]) + CumWeight(lg, ord, upto - 1)

PosOf(ord, t) == CHOOSE x \in 1 .. Len(ord) : ord[x] = t

\* the top-p part: in sorted order, a token is removed when the cumulative
\* probability of the tokens before it exceeds top_p; the first is kept
TopP(lg, p, ord) ==
    LET total == CumWeight(lg, ord, Len(ord))
    IN  [t \in Tokens |->
            IF /\ PosOf(ord, t) > 1
               /\ CumWeight(lg, ord, PosOf(ord, t) - 1) * 100 > p * total
            THEN NegInf ELSE lg[t]]

\* the results the filter may give for one row of logits
top_k_top_p_filtering(lg, k, p) ==
    IF p < 100
    THEN {TopP(TopK(lg, k), p, ord) : ord \in DescOrders(TopK(lg, k))}
    ELSE {TopK(lg, k)}

Softmax(lg) ==
    LET total == SumOver(Tokens, [t \in Tokens |-> Exp(lg[t])])
    IN  [t \in Tokens |-> <<Exp(lg[t]), total>>]

\* insertion of a probability into a list sorted in descending order
RECURSIVE InsertDesc(_, _)
InsertDesc(sorted, x) ==
    IF sorted = <<>> THEN <<x>>
    ELSE IF x[1] >= Head(sorted)[1] THEN <<x>> \o sorted
         ELSE <<Head(sorted)>> \o InsertDesc(Tail(sorted), x)

RECURSIVE SortDescFrom(_, _)
SortDescFrom(pr, t) ==
    IF t > NumBins + 2 THEN <<>>
    ELSE InsertDesc(SortDescFrom(pr, t + 1), pr[t])

\* softmax(preds).sort(descending=True)[0][:, 0] for one sample
TopProb(lg) == SortDescFrom(Softmax(lg), 0)[1]

\* softmax(preds).argmax(): the first token of largest probability
ArgMaxToken(lg) ==
    CHOOSE t \in Tokens :
        /\ \A u \in Tokens : Softmax(lg)[u][1] <= Softmax(lg)[t][1]
        /\ \A u \in Tokens : u < t => Softmax(lg)[u][1] < Softmax(lg)[t][1]

\* softmax(preds).multinomial(1): any token of positive probability
Multinomial(lg) == {t \in Tokens : Softmax(lg)[t][1] > 0}

\* the tokens the bound sampling function may return for one sample
Draw(smp, lg) ==
    IF smp = "argmax" THEN {ArgMaxToken(lg)} ELSE Multinomial(lg)


---------------------------------------------------------------------------
(* test_generate, utils.py 241-271, and test_generate_arno, 185-238 *)

MaxGenSteps == 3        \* largest max_len
MaxGenTokens == 3       \* largest generated batch:  B * max_len <= MaxGenTokens
GenSlots == 1           \* slots N of the score matrix the predictor returns

Drivers == {"test_generate", "test_generate_arno"}
TopKs == {0, 2}         \* values of top_k
TopPs == {50, 100}      \* values of top_p, in percent

\* shapes (B, max_len) of a run
GenShapes ==
    { sh \in (1 .. MaxBatch) \X (1 .. MaxGenSteps) : sh[1] * sh[2] <= MaxGenTokens }

\* rows of logits the predictor may return for one sample
RowPeak(top, second) ==
    [t \in Tokens |-> IF t = top THEN 3 ELSE IF t = second THEN 2 ELSE 0]

RowTie(first, second) ==
    [t \in Tokens |-> IF t \in {first, second} THEN 2 ELSE 0]

LogitRows ==
    { RowPeak(0, EOS_code), RowPeak(EOS_code, PAD_code),
      RowPeak(PAD_code, 1), RowTie(0, EOS_code) }

\* "if top_k != 0 or top_p != 1": which sampling function is bound
BindSampleAnd(k, p) ==
    IF k # 0 /\ p # 100 THEN "multinomial" ELSE "argmax"

BindSample(k, p) ==
    IF k # 0 \/ p # 100 THEN "multinomial" ELSE "argmax"

\* "for i in range(max_len)": whether the loop runs another step
LoopRunsUntilEOS(i, n, bp) ==
    /\ i < n
    /\ \E s \in DOMAIN bp : \A e \in 1 .. Len(bp[s]) : bp[s][e] # EOS_code

LoopRuns(i, n, bp) == i < n

\* "if i % 2 == 0": whether the step records a confidence
RecordsConfOdd(i) == i % 2 = 1

RecordsConf(i) == i % 2 = 0

\* scorenet1 and scorenet2 of the predictor: one value per slot, a fixed
\* function of the features; features are named by the step that made them
scorenet1(f, nb) ==
    [s \in Range(nb) |-> [r \in Range(GenSlots) |-> (f.step + r + s) % 3]]

scorenet2(f, nb) ==
    [s \in Range(nb) |-> [c \in Range(GenSlots) |-> (f.step * (c + 1)) % 2]]

\* the outer product of the two projections
PermPredsProduct(f, nb) ==
    [s \in Range(nb) |-> [r \in Range(GenSlots) |-> [c \in Range(GenSlots) |->
        scorenet1(f, nb)[s][r] * scorenet2(f, nb)[s][c]]]]

\* scorenet1(feats) + transpose(scorenet2(feats), 1, 2)
PermPreds(f, nb) ==
    [s \in Range(nb) |-> [r \in Range(GenSlots) |-> [c \in Range(GenSlots) |->
        scorenet1(f, nb)[s][r] + scorenet2(f, nb)[s][c]]]]

\* state on entry of a driver
InitGen ==
    /\ pc = "gen"
    /\ driver \in Drivers
    /\ top_k \in TopKs
    /\ top_p \in TopPs
    /\ \E sh \in GenShapes : x_size = sh[1] /\ max_len = sh[2]
    /\ sample = Idle /\ calls = 0 /\ preds = Idle /\ feats = Idle
    /\ batch_preds = Idle /\ batch_confs = Idle /\ ii = 0
    /\ scores = Idle /\ perm = Idle /\ b = 0
    /\ poly = Idle /\ merged = Idle
    /\ graph = Idle /\ out = Idle /\ polygons_idx = Idle /\ batch = Idle
    /\ EOS_idxs = Idle /\ all_coords = Idle /\ all_confs = Idle
    /\ PipeIdle
    /\ RestIdle

\* before the loop: batch_preds of BOS, confs = [], the sampling function
\* (lines 242-249; 195-209 in test_generate_arno)
GenSetup ==
    /\ pc = "gen"
    /\ batch_preds' = [s \in Range(x_size) |-> <<BOS_code>>]
    /\ batch_confs' = <<>>
    /\ sample' = BindSample(top_k, top_p)
    /\ pc' = "gen_loop"
    /\ UNCHANGED <<scores, perm, b, polyvars, postvars, ii,
                   driver, x_size, top_k, top_p, max_len, calls, preds, feats, pipevars, restvars>>

\* what one step may compute for one sample: the filtered logits of some row
\* the predictor returns, and a token the sampling function draws from them
StepResults(k, p, smp) ==
    UNION { UNION { { <<fl, t>> : t \in Draw(smp, fl) } :
                    fl \in top_k_top_p_filtering(row, k, p) } :
            row \in LogitRows }

\* confs_ of one step: the top probability of every sample
ConfsOf(step, nb) == [s \in Range(nb) |-> TopProb(step[s][1])]

\* torch.cat([batch_preds, preds], dim=1)
CatDrawn(bp, step, nb) == [s \in Range(nb) |-> Append(bp[s], step[s][2])]

\* one step of the loop: predict, filter, record the confidence, sample,
\* append (lines 253-262; 216-225 in test_generate_arno)
GenStepOf(d) ==
    /\ pc = "gen_loop"
    /\ driver = d
    /\ LoopRuns(ii, max_len, batch_preds)
    /\ \E step \in [Range(x_size) -> StepResults(top_k, top_p, sample)] :
          /\ preds' = [s \in Range(x_size) |-> step[s][1]]
          /\ batch_confs' =
                IF RecordsConf(ii)
                THEN Append(batch_confs, ConfsOf(step, x_size))
                ELSE batch_confs
          /\ batch_preds' = CatDrawn(batch_preds, step, x_size)
    /\ calls' = calls + 1
    /\ feats' = [step |-> ii]
    /\ ii' = ii + 1
    /\ UNCHANGED <<pc, scores, perm, b, polyvars, postvars,
                   driver, x_size, top_k, top_p, max_len, sample, pipevars, restvars>>

TestGenerateStep == GenStepOf("test_generate")

TestGenerateArnoStep == GenStepOf("test_generate_arno")

\* after the loop: the score tensor from the last features, and the call of
\* scores_to_permutations (lines 264-269; 231-236)
GenScore ==
    /\ pc = "gen_loop"
    /\ ~ LoopRuns(ii, max_len, batch_preds)
    /\ scores' = PermPreds(feats, x_size)
    /\ perm' = [s \in Range(x_size) |-> Zeros(GenSlots)]
    /\ b' = 0
    /\ pc' = "assign"
    /\ UNCHANGED <<polyvars, postvars, seqvars, genvars, pipevars, restvars>>

\* "return batch_preds.cpu(), confs, perm_preds" (line 271; 238)
GenReturn ==
    /\ pc = "assign_done"
    /\ driver \in Drivers
    /\ pc' = "gen_done"
    /\ UNCHANGED <<scores, perm, b, polyvars, postvars, seqvars, genvars, pipevars, restvars>>

NextGen ==
    \/ GenSetup
    \/ TestGenerateStep
    \/ TestGenerateArnoStep
    \/ GenScore
    \/ AssignSample
    \/ AssignReturn
    \/ GenReturn

SpecGen == InitGen /\ [][NextGen]_vars


---------------------------------------------------------------------------
(* Claims about the drivers *)

\* states of a driver from the first test of the loop to the return
GenRunning == pc \in {"gen_loop", "assign", "assign_done", "gen_done"}

\* states of a driver after the loop has ended
GenAfterLoop == pc \in {"assign", "assign_done", "gen_done"}

\* C8: both drivers run exactly max_len steps: one call of the predictor per
\* step, and every step appends exactly one token to the sequence of every
\* sample, whether or not the sample has already produced EOS; the loop does
\* not stop early.
C8_ExactlyMaxLenSteps ==
    GenRunning =>
        /\ calls = ii
        /\ ii <= max_len
        /\ \A s \in Range(x_size) : Len(batch_preds[s]) = 1 + ii
        /\ GenAfterLoop => calls = max_len

\* a run of three steps that has returned although its sample produced EOS
\* in the first step
C8_Witness ==
    /\ pc = "gen_done"
    /\ max_len = 3
    /\ calls = 3
    /\ batch_preds[0][2] = EOS_code
    /\ Len(batch_preds[0]) = 4

\* pr is the largest probability of the distribution softmax(lg)
IsLargestProb(pr, lg) ==
    /\ \E t \in Tokens : Softmax(lg)[t] = pr
    /\ \A t \in Tokens : Softmax(lg)[t][1] <= pr[1]

\* the confidences hold one entry for every even step made so far
C9_Count ==
    GenRunning =>
        /\ Len(batch_confs) = (ii + 1) \div 2
        /\ GenAfterLoop => Len(batch_confs) = (max_len + 1) \div 2

\* what a step does to the confidences
C9_Step ==
    (pc = "gen_loop" /\ ii' = ii + 1) =>
        IF ii % 2 = 0
        THEN /\ Len(batch_confs') = Len(batch_confs) + 1
             /\ SubSeq(batch_confs', 1, Len(batch_confs)) = batch_confs
             /\ \A s \in Range(x_size) :
                   IsLargestProb(batch_confs'[Len(batch_confs')][s], preds'[s])
        ELSE batch_confs' = batch_confs

\* C9: a confidence is recorded at exactly the even steps 0, 2, 4, ...: the
\* confidences hold ceil(max_len / 2) entries at the end, in step order, and
\* each entry is, for every sample, the largest probability of the softmax
\* of the filtered logits of its step.
C9_ConfidenceAtEvenSteps == [][C9_Step /\ C9_Count']_vars

\* a greedy run of three steps that recorded two different confidences
C9_Witness ==
    /\ pc = "gen_done"
    /\ max_len = 3
    /\ Len(batch_confs) = 2
    /\ batch_confs[1][0] = <<8, 15>>
    /\ batch_confs[2][0] = <<4, 11>>

\* top_k and top_p have their default values
Defaults == top_k = 0 /\ top_p = 100

\* C10: sampling is greedy (the token of highest probability) if and only if
\* top_k = 0 and top_p = 1; otherwise every token is a draw from the
\* filtered distribution; the policy is fixed by top_k and top_p for the
\* whole run.
C10_GreedyIffDefaults ==
    GenRunning =>
        /\ sample \in {"argmax", "multinomial"}
        /\ sample = "argmax" <=> Defaults
        /\ ii >= 1 =>
              \A s \in Range(x_size) :
                 IF Defaults
                 THEN IsLargestProb(Softmax(preds[s])[Last(batch_preds[s])], preds[s])
                 ELSE Softmax(preds[s])[Last(batch_preds[s])][1] > 0

\* a run with top_k = 2 whose latest token is not the most probable one
C10_Witness ==
    /\ pc = "gen_done"
    /\ top_k = 2 /\ top_p = 100
    /\ sample = "multinomial"
    /\ ii >= 2
    /\ Softmax(preds[0])[Last(batch_preds[0])][1] < TopProb(preds[0])[1]


---------------------------------------------------------------------------
(* scores_to_permutations on a score tensor of any shape B x N x M,        *)
(* utils.py 96-108: "B, N, N = scores.shape" accepts every 3-d shape, the  *)
(* loop and the library call work on the N x M slices.                     *)

MaxRectCells == 6       \* largest score tensor:  B * N * M <= MaxRectCells

RowsOf(t) == Cardinality(DOMAIN t[0])
ColsOf(t) == Cardinality(DOMAIN t[0][0])

\* shapes (B, N, M) of the input
RectShapes ==
    { sh \in (1 .. MaxBatch) \X (1 .. MaxRectCells) \X (1 .. MaxRectCells) :
        sh[1] * sh[2] * sh[3] <= MaxRectCells }

RectMatrices(n, m, vals) == [Range(n) -> [Range(m) -> vals]]

\* -scores[b] for an n x m slice
NegRect(mat, n, m) == [i \in Range(n) |-> [j \in Range(m) |-> 0 - mat[i][j]]]

\* the pairs of index arrays (row_ind, col_ind) of length min(n, m) that
\* assign distinct rows to distinct columns, row_ind ascending
RectAssignments(n, m) ==
    LET k == Min2(n, m)
    IN  { rc \in [Range(k) -> Range(n)] \X [Range(k) -> Range(m)] :
            /\ \A u, v \in Range(k) : u < v => rc[1][u] < rc[1][v]
            /\ \A u, v \in Range(k) : u # v => rc[2][u] # rc[2][v] }

RectCost(cost, n, m, rc) ==
    SumOver(Range(Min2(n, m)),
            [u \in Range(Min2(n, m)) |-> cost[rc[1][u]][rc[2][u]]])

\* scipy.optimize.linear_sum_assignment(cost) on an n x m matrix: min(n, m)
\* assigned pairs of minimum total cost; no error for n # m
linear_sum_assignment_rect(cost, n, m) ==
    { rc \in RectAssignments(n, m) :
        \A d \in RectAssignments(n, m) :
            RectCost(cost, n, m, rc) <= RectCost(cost, n, m, d) }

\* np.zeros_like(scores)[b]
ZerosRect(n, m) == [i \in Range(n) |-> [j \in Range(m) |-> 0]]

\* perm[b, r, c] = 1
SetOnesRect(slice, n, m, r, c) ==
    [i \in Range(n) |-> [j \in Range(m) |->
        IF \E u \in Range(Min2(n, m)) : r[u] = i /\ c[u] = j THEN 1 ELSE slice[i][j]]]

\* state on entry with a score tensor of any 3-d shape
InitAssignAny ==
    /\ pc = "assign"
    /\ \E sh \in RectShapes :
          /\ scores \in [Range(sh[1]) -> RectMatrices(sh[2], sh[3], ScoreVals)]
          /\ perm = [s \in Range(sh[1]) |-> ZerosRect(sh[2], sh[3])]
    /\ b = 0
    /\ poly = Idle /\ merged = Idle
    /\ graph = Idle /\ out = Idle /\ polygons_idx = Idle /\ batch = Idle
    /\ EOS_idxs = Idle /\ all_coords = Idle /\ all_confs = Idle
    /\ batch_preds = Idle /\ batch_confs = Idle /\ ii = 0
    /\ GenIdle
    /\ PipeIdle
    /\ RestIdle

\* one iteration of "for b in range(B)" on N x M slices: lines 105-107
AssignSampleAny ==
    /\ pc = "assign"
    /\ b < BatchOf(scores)
    /\ LET n == RowsOf(scores)
           m == ColsOf(scores)
       IN  \E rc \in linear_sum_assignment_rect(NegRect(scores[b], n, m), n, m) :
              perm' = [perm EXCEPT ![b] = SetOnesRect(perm[b], n, m, rc[1], rc[2])]
    /\ b' = b + 1
    /\ UNCHANGED <<pc, scores, polyvars, postvars, seqvars, genvars, pipevars, restvars>>

NextAssignAny == AssignSampleAny \/ AssignReturn

SpecAssignAny == InitAssignAny /\ [][NextAssignAny]_vars

\* C11: a score tensor of shape B x N x M with N # M is a fatal error:
\* scores_to_permutations never returns for it.
C11_NonSquareNeverReturns ==
    RowsOf(scores) # ColsOf(scores) => pc # "assign_done"

\* what the code does with a non-square tensor: it returns a 0/1 tensor of
\* the same shape with min(N, M) ones in every sample
C11_NonSquareReturned ==
    /\ pc = "assign_done"
    /\ RowsOf(scores) # ColsOf(scores)
    /\ \A s \in Range(BatchOf(scores)) :
          SumOver(Range(RowsOf(scores)),
                  [i \in Range(RowsOf(scores)) |->
                      SumOver(Range(ColsOf(scores)), perm[s][i])])
             = Min2(RowsOf(scores), ColsOf(scores))


---------------------------------------------------------------------------
(* The inference loop body: postprocess, padding of the coordinates,       *)
(* permutations_to_polygons and the pad filter.  predict.py 142-166 and    *)
(* predict_inria_coco_val_set.py 190-214.                                  *)

MaxPipeTokens == 10     \* largest batch of generated tokens: B * (L - 1)
IMG_SIZE == 224
INPUT_WIDTH == 224

Callers == {"predict", "predict_inria_coco_val_set"}

\* (B, n_vertices) of a batch
PipeShapes ==
    { sh \in (1 .. MaxBatch) \X (1 .. MaxVertices) :
        sh[1] * generation_steps_of(sh[2]) <= MaxPipeTokens }

\* tokens of the generated sequences of a batch: a bin and EOS
PipeTokens == {NumBins - 1, EOS_code}

PipeGenerated(steps) ==
    { <<BOS_code>> \o q : q \in [1 .. steps -> PipeTokens] }

\* coord of one sample: its decoded vertices (none for a rejected sample),
\* then pad rows up to n_vertices
CoordRowsZeroFill(entry, n) ==
    [i \in Range(n) |->
        IF i < Len(entry.list) THEN entry.list[i + 1] ELSE <<0, 0>>]

CoordRows(entry, n) ==
    [i \in Range(n) |->
        IF i < Len(entry.list) THEN entry.list[i + 1] ELSE <<PadCoord, PadCoord>>]

\* torch.fliplr(p)
FlipLR(ring) == [q \in 1 .. Len(ring) |-> <<ring[q][2], ring[q][1]>>]

\* p[p[:, 0] != pad_idx]
IsVertexRow(row) == row[1] # PadCoord
DropPad(ring) == SelectSeq(ring, IsVertexRow)

\* p * (CFG.IMG_SIZE / CFG.INPUT_WIDTH), kept exact
ImgScaled(ring) ==
    [q \in 1 .. Len(ring) |->
        << <<ring[q][1] * IMG_SIZE, INPUT_WIDTH>>, <<ring[q][2] * IMG_SIZE, INPUT_WIDTH>> >>]

HasRows(ring) == Len(ring) > 0

\* predict.py 160-165: polys of one sample
PolysPredict(rings) ==
    SelectSeq([r \in 1 .. Len(rings) |-> DropPad(FlipLR(rings[r]))], HasRows)

\* predict_inria_coco_val_set.py 208-213: polys of one sample
PolysInria(rings) ==
    [r \in 1 .. Len(rings) |-> ImgScaled(DropPad(FlipLR(rings[r])))]

\* state when test_generate has returned batch_preds, batch_confs, perm_preds
InitPipe ==
    /\ pc = "post"
    /\ \E sh \in PipeShapes :
          /\ batch_preds \in [Range(sh[1]) -> PipeGenerated(generation_steps_of(sh[2]))]
          /\ batch_confs = [j \in 1 .. (sh[2] + 1) |->
                               [s \in Range(sh[1]) |-> ConfValue(j - 1, s)]]
          /\ perm \in [Range(sh[1]) -> PermMatrices(sh[2])]
    /\ EOS_idxs = Idle
    /\ all_coords = <<>>
    /\ all_confs = <<>>
    /\ ii = 0
    /\ scores = Idle /\ b = 0
    /\ poly = Idle /\ merged = Idle
    /\ graph = Idle /\ out = Idle /\ polygons_idx = Idle /\ batch = Idle
    /\ GenIdle
    /\ caller = "loop" /\ predictions = <<>>
    /\ RestIdle

\* predict.py 147-157: coords, and the call of permutations_to_polygons
PipeCoords ==
    /\ pc = "post_done"
    /\ caller = "loop"
    /\ graph' = [s \in Range(BatchOf(perm)) |->
                    CoordRows(all_coords[s + 1], SlotsOf(perm))]
    /\ out' = "torch"
    /\ b' = 0
    /\ batch' = <<>>
    /\ polygons_idx' = <<>>
    /\ pc' = "poly"
    /\ UNCHANGED <<scores, perm, poly, merged, postvars, seqvars, genvars, pipevars, restvars>>

\* predict.py 159-166
PipeFilterPredict ==
    /\ pc = "poly_done"
    /\ caller = "loop"
    /\ predictions' = [s \in 1 .. Len(batch) |-> PolysPredict(batch[s])]
    /\ caller' = "predict"
    /\ pc' = "pipe_done"
    /\ UNCHANGED <<scores, perm, b, polyvars, postvars, seqvars, genvars, restvars>>

\* predict_inria_coco_val_set.py 207-214
PipeFilterInria ==
    /\ pc = "poly_done"
    /\ caller = "loop"
    /\ predictions' = [s \in 1 .. Len(batch) |-> PolysInria(batch[s])]
    /\ caller' = "predict_inria_coco_val_set"
    /\ pc' = "pipe_done"
    /\ UNCHANGED <<scores, perm, b, polyvars, postvars, seqvars, genvars, restvars>>

NextPipe ==
    \/ PostEosIdxs
    \/ PostSample
    \/ PostReturn
    \/ PipeCoords
    \/ PolySample
    \/ PolyReturn
    \/ PipeFilterPredict
    \/ PipeFilterInria

SpecPipe == InitPipe /\ [][NextPipe]_vars


\* the sequence has no EOS, or its first EOS at an even index
Malformed(seq) == FirstEOS(seq) % 2 = 0

\* the pipeline has run postprocess to its end
PostprocessDone == pc \in {"post_done", "poly", "poly_done", "pipe_done"}

---------------------------------------------------------------------------
(* Claims about the active slots and the rings of permutations_to_polygons *)

\* the slots of sample s whose diagonal entry is not 1
ActiveSlots(s) == { i \in Range(SlotsOf(perm)) : perm[s][i][i] # 1 }

\* the active slot of sample s with exactly k smaller active slots
KthActive(s, k) ==
    CHOOSE i \in ActiveSlots(s) :
        Cardinality({ l \in ActiveSlots(s) : l < i }) = k

\* the relabelled indices that occur in the rings of sample s
RingIndices(s) ==
    UNION { ElemsOf(polygons_idx[s + 1][r]) : r \in 1 .. Len(polygons_idx[s + 1]) }

\* the output conventions that give the rows of graph unchanged
RowOuts == {"torch", "numpy", "inria-torch"}

\* C13: slot i of a sample is active iff perm[i][i] # 1; the active slots,
\* in ascending order, are relabelled 0..K-1 and exactly they take part in
\* the rings: the ring entry with label k is the row of graph of the k-th
\* active slot.  Only the diagonal of perm enters this.
C13_ActiveIffDiagonalNotOne ==
    \A s \in Range(Len(polygons_idx)) :
        /\ RingIndices(s) = Range(Cardinality(ActiveSlots(s)))
        /\ out \in RowOuts =>
              \A r \in 1 .. Len(batch[s + 1]) :
                 \A q \in 1 .. Len(batch[s + 1][r]) :
                    batch[s + 1][r][q] =
                       graph[s][KthActive(s, polygons_idx[s + 1][r][q])]

\* three slots, slot 1 a self-loop, slots 0 and 2 exchanged, every slot with
\* its own coordinates: the ring is made of the rows of slots 0 and 2
C13_Witness ==
    /\ pc = "poly_done"
    /\ out = "torch"
    /\ SlotsOf(perm) = 3
    /\ perm[0][1][1] = 1 /\ perm[0][0][2] = 1 /\ perm[0][2][0] = 1
    /\ graph[0] = GraphRows(3, 3)
    /\ polygons_idx[1] = << <<0, 1, 0>> >>
    /\ batch[1] = << <<VertexCoord(0), VertexCoord(2), VertexCoord(0)>> >>


\* every slot of sample s is a self-loop
AllSelfLoops(s) == \A i \in Range(SlotsOf(perm)) : perm[s][i][i] = 1

\* C14: a sample whose slots are all self-loops gets an empty ring list; it
\* raises no error, whatever the output tag, and the other samples of the
\* batch still get their rings.
C14_AllSelfLoopsEmpty ==
    /\ \A s \in Range(Len(batch)) :
          IF AllSelfLoops(s)
          THEN batch[s + 1] = <<>> /\ polygons_idx[s + 1] = <<>>
          ELSE Len(batch[s + 1]) > 0
    /\ pc = "poly_exit" => ~ AllSelfLoops(b)
    /\ pc = "poly_done" => Len(batch) = BatchOf(perm)

\* a returned batch of two samples of three slots: the first all self-loops
\* with an empty ring list, the second a 3-cycle with its ring
C14_Witness ==
    /\ pc = "poly_done"
    /\ BatchOf(perm) = 2
    /\ SlotsOf(perm) = 3
    /\ AllSelfLoops(0)
    /\ batch[1] = <<>>
    /\ perm[1][0][1] = 1 /\ perm[1][1][2] = 1 /\ perm[1][2][0] = 1
    /\ Len(batch[2]) = 1
    /\ Len(batch[2][1]) = 4


\* the permutation matrix of the two 3-cycles (0,1,2) and (3,4,5)
TwoCycles3 ==
    PermMatrix([i \in Range(6) |-> IF i < 3 THEN (i + 1) % 3 ELSE 3 + ((i - 2) % 3)], 6)

IsScenarioB(s) ==
    /\ pc = "poly_done"
    /\ s \in Range(BatchOf(perm))
    /\ SlotsOf(perm) = 6
    /\ perm[s] = TwoCycles3

\* C15 as stated: scenario B yields exactly two rings of 3 vertices each.
C15_TwoRingsOfThree ==
    \A s \in Range(MaxBatch) :
        IsScenarioB(s) =>
            /\ Len(polygons_idx[s + 1]) = 2
            /\ \A r \in 1 .. 2 : Len(polygons_idx[s + 1][r]) = 3

\* C15 amended: scenario B yields exactly two rings, the slots 0,1,2 and
\* the slots 3,4,5, each in cycle order and closed by repeating its first
\* slot: four entries per ring, three distinct vertices.
C15_TwoClosedRingsOfThree ==
    \A s \in Range(MaxBatch) :
        IsScenarioB(s) =>
            /\ Len(batch[s + 1]) = 2
            /\ polygons_idx[s + 1] = << <<0, 1, 2, 0>>, <<3, 4, 5, 3>> >>
            /\ out \in RowOuts =>
                  /\ batch[s + 1][1] = Gather(graph[s], <<0, 1, 2, 0>>)
                  /\ batch[s + 1][2] = Gather(graph[s], <<3, 4, 5, 3>>)

C15_Witness ==
    /\ IsScenarioB(0)
    /\ out = "numpy"
    /\ graph[0] = GraphRows(6, 6)
    /\ Len(batch[1]) = 2
    /\ batch[1][2] = <<VertexCoord(3), VertexCoord(4), VertexCoord(5), VertexCoord(3)>>

\* three slots: slot 1 a self-loop, slots 0 and 2 a 2-cycle
SelfLoopAndPair == PermMatrix([i \in Range(3) |-> 2 - i], 3)

IsDegenerate(s) ==
    /\ pc = "poly_done"
    /\ s \in Range(BatchOf(perm))
    /\ SlotsOf(perm) = 3
    /\ perm[s] = SelfLoopAndPair

\* C16 as stated: the degenerate scenario yields exactly one ring, of
\* exactly 2 vertices.
C16_OneRingOfTwo ==
    \A s \in Range(MaxBatch) :
        IsDegenerate(s) =>
            /\ Len(polygons_idx[s + 1]) = 1
            /\ Len(polygons_idx[s + 1][1]) = 2

\* C16 amended: the degenerate scenario yields exactly one ring, which is
\* kept: slot 0, slot 2, and slot 0 again (three entries, two distinct
\* vertices); slot 1 is in no ring.
C16_OneClosedRingOfTwo ==
    \A s \in Range(MaxBatch) :
        IsDegenerate(s) =>
            /\ Len(batch[s + 1]) = 1
            /\ polygons_idx[s + 1] = << <<0, 1, 0>> >>
            /\ out \in RowOuts =>
                  batch[s + 1][1] = <<graph[s][0], graph[s][2], graph[s][0]>>

C16_Witness ==
    /\ IsDegenerate(0)
    /\ out = "inria-torch"
    /\ graph[0] = GraphRows(3, 3)
    /\ batch[1] = << <<VertexCoord(0), VertexCoord(2), VertexCoord(0)>> >>


---------------------------------------------------------------------------
(* More claims about bubble_merge *)

\* chain q could still be spliced onto chain p
Mergeable(chains, p, q) == p # q /\ Last(chains[p]) = Head(chains[q])

---------------------------------------------------------------------------
(* Claims about the output conventions *)

\* the rings of sample s in the convention 'torch': rows of graph
TorchRings(s) ==
    LET n == SlotsOf(perm)
    IN  EmitAll("torch", RestrictRows(graph[s], ActiveIdx(Diag(perm[s], n), n)),
                SampleChains(perm[s], n))

\* what a convention does to one vertex (row, col)
VertexMap(o, v) ==
    CASE o \in RowOuts -> v
      [] o = "list"    -> <<Scaled(v[2]), Scaled(0 - v[1])>>
      [] o = "coco"    -> <<v[2], v[1]>>

\* C18: for the same perm and graph every valid convention gives the rings
\* of the convention 'torch', as many and in the same order, each with the
\* same vertices in the same order; a convention only maps every vertex:
\* unchanged, (col, -row) * 300/320 for 'list', (col, row) flattened to a
\* list of twice the ring length for 'coco'.
C18_ConventionsAgree ==
    pc = "poly_done" =>
        \A s \in Range(Len(batch)) :
            out \in ValidOuts =>
                LET ref == TorchRings(s)
                    got == batch[s + 1]
                IN  /\ Len(got) = Len(ref)
                    /\ \A rn \in 1 .. Len(ref) :
                          IF out = "coco"
                          THEN /\ Len(got[rn]) = 2 * Len(ref[rn])
                               /\ \A vn \in 1 .. Len(ref[rn]) :
                                     <<got[rn][2 * vn - 1], got[rn][2 * vn]>>
                                        = VertexMap(out, ref[rn][vn])
                          ELSE /\ Len(got[rn]) = Len(ref[rn])
                               /\ \A vn \in 1 .. Len(ref[rn]) :
                                     got[rn][vn] = VertexMap(out, ref[rn][vn])

\* a 3-cycle on three decoded vertices in the convention 'coco'
C18_Witness ==
    /\ pc = "poly_done"
    /\ out = "coco"
    /\ SlotsOf(perm) = 3
    /\ perm[0][0][1] = 1 /\ perm[0][1][2] = 1 /\ perm[0][2][0] = 1
    /\ graph[0] = GraphRows(3, 3)
    /\ batch[1] = << <<15, 10, 25, 20, 35, 30, 15, 10>> >>


---------------------------------------------------------------------------
(* The derived configuration, utils.py 17-22 and config.py 47, 84, and the *)
(* sequence a driver returns under it                                      *)

\* C19: with the derived configuration, a driver called with max_len =
\* generation_steps keeps BOS at index 0 of the sequence of every sample,
\* never lets a sequence grow beyond MAX_LEN tokens, and returns sequences
\* of exactly generation_steps + 1 = MAX_LEN tokens.
C19_ReturnedSequenceFillsCapacity ==
    \A n \in 0 .. MaxGenSteps :
        (GenRunning /\ max_len = generation_steps_of(n)) =>
            \A s \in Range(x_size) :
                /\ batch_preds[s][1] = BOS_code
                /\ Len(batch_preds[s]) <= max_len_of(n)
                /\ GenAfterLoop =>
                      /\ Len(batch_preds[s]) = generation_steps_of(n) + 1
                      /\ Len(batch_preds[s]) = max_len_of(n)

\* a returned run for n_vertices = 1: BOS and three generated tokens
C19_Witness ==
    /\ pc = "gen_done"
    /\ max_len = generation_steps_of(1)
    /\ Len(batch_preds[0]) = max_len_of(1)
    /\ batch_preds[0][1] = BOS_code
    /\ batch_preds[0][2] # EOS_code
    /\ batch_preds[0][4] = EOS_code


---------------------------------------------------------------------------
(* The confidences postprocess returns *)

\* C20: for every valid sample postprocess returns exactly one confidence
\* per decoded vertex; the confidence of vertex j (counted from 0) is entry
\* j of the captured list, the value recorded at the even step 2j, rounded
\* to 3 decimals; every index used is inside the captured list.
C20_OneConfidencePerVertex ==
    \A s \in Range(MaxBatch) :
        (Processed(s) /\ all_coords[s + 1] # None) =>
            /\ all_confs[s + 1] # None
            /\ Len(all_confs[s + 1].list) = Len(all_coords[s + 1].list)
            /\ Len(all_coords[s + 1].list) <= Len(batch_confs)
            /\ \A j \in Range(Len(all_coords[s + 1].list)) :
                  /\ all_confs[s + 1].list[j + 1] = Round3(batch_confs[j + 1][s])
                  /\ batch_confs[j + 1][s] = ConfValue(j, s)

\* a returned sample of two vertices: the confidences of steps 0 and 2,
\* 0.9000 and 0.7766, come back as 0.900 and 0.777
C20_Witness ==
    /\ pc = "post_done"
    /\ NVertices = 2
    /\ WellFormed(batch_preds[0], 2)
    /\ Len(all_coords[1].list) = 2
    /\ Len(batch_confs) = 3
    /\ all_confs[1].list = <<900, 777>>


---------------------------------------------------------------------------
(* Tokenizer: encode, and the round trip through decode.  tokenizer.py is  *)
(* not among the source files; these definitions follow the               *)
(* specification, section 4.1.  Coordinates are whole pixels.              *)

MaxEncVertices == 1     \* largest list of vertices given to encode

\* image_size, in pixels:  image_size / NUM_BINS is BinWidth
ImageSize == NumBins * BinWidth

\* a quantization whose bins are twice as wide as the ones decode assumes
quantize_coarse(c) == Max2(0, Min2(c \div (2 * BinWidth), NumBins - 1))

\* floor(coord / (image_size / NUM_BINS)), clamped to [0, NUM_BINS)
quantize(c) == Max2(0, Min2(c \div BinWidth, NumBins - 1))

\* the row-bin token and the col-bin token of every vertex, in order
RECURSIVE BinTokens(_)
BinTokens(vs) ==
    IF vs = <<>>
    THEN <<>>
    ELSE <<quantize(Head(vs)[1]), quantize(Head(vs)[2])>> \o BinTokens(Tail(vs))

\* PAD up to the capacity
Padding(n) == [q \in 1 .. n |-> PAD_code]

\* encode rejects more vertices than the capacity has room for
TooManyVertices(vs, cap) == 2 * Len(vs) + 2 > cap

\* encode: BOS, the bin tokens, EOS, then PAD up to the capacity
Encode(vs, cap) ==
    <<BOS_code>> \o BinTokens(vs) \o <<EOS_code>>
        \o Padding(cap - (2 * Len(vs) + 2))

\* coordinates given to encode: the pixels of the image and two beyond it
Coordinates == 0 .. (ImageSize + 1)

VertexLists ==
    UNION { [1 .. k -> Coordinates \X Coordinates] : k \in 0 .. MaxEncVertices }

InitTok ==
    /\ pc = "tok"
    /\ vertices \in VertexLists
    /\ capacity \in { max_len_of(n) : n \in 0 .. MaxEncVertices }
    /\ encoded = Idle /\ decoded = Idle
    /\ scores = Idle /\ perm = Idle /\ b = 0
    /\ poly = Idle /\ merged = Idle
    /\ graph = Idle /\ out = Idle /\ polygons_idx = Idle /\ batch = Idle
    /\ EOS_idxs = Idle /\ all_coords = Idle /\ all_confs = Idle
    /\ batch_preds = Idle /\ batch_confs = Idle /\ ii = 0
    /\ GenIdle
    /\ PipeIdle
    /\ StepIdle
    /\ EvalIdle

\* encode(vertices, capacity)
TokEncode ==
    /\ pc = "tok"
    /\ ~ TooManyVertices(vertices, capacity)
    /\ encoded' = Encode(vertices, capacity)
    /\ pc' = "tok_encoded"
    /\ UNCHANGED <<scores, perm, b, polyvars, postvars, seqvars, genvars, pipevars,
                   vertices, capacity, decoded, stepvars, evalvars>>

\* encode fails on a list longer than the configured vertex count
TokEncodeFail ==
    /\ pc = "tok"
    /\ TooManyVertices(vertices, capacity)
    /\ pc' = "tok_error"
    /\ UNCHANGED <<scores, perm, b, polyvars, postvars, seqvars, genvars, pipevars,
                   tokvars, stepvars, evalvars>>

\* decode(encoded)
TokDecode ==
    /\ pc = "tok_encoded"
    /\ decoded' = Decode(encoded)
    /\ pc' = "tok_done"
    /\ UNCHANGED <<scores, perm, b, polyvars, postvars, seqvars, genvars, pipevars,
                   vertices, capacity, encoded, stepvars, evalvars>>

NextTok == TokEncode \/ TokEncodeFail \/ TokDecode

SpecTok == InitTok /\ [][NextTok]_vars

\* |x - y|
AbsDiff(x, y) == IF x >= y THEN x - y ELSE y - x

\* C21: a coordinate c in [0, image_size) comes back from decode(encode(.))
\* at most one bin width (image_size / NUM_BINS) away from c; the decoded
\* list has one vertex per encoded vertex.
C21_RoundTripWithinOneBin ==
    pc = "tok_done" =>
        /\ Len(decoded) = Len(vertices)
        /\ \A v \in 1 .. Len(vertices) : \A axis \in 1 .. 2 :
              vertices[v][axis] \in 0 .. (ImageSize - 1) =>
                 AbsDiff(decoded[v][axis], vertices[v][axis]) <= BinWidth

\* the vertex (1, 3) of a 4-pixel image comes back as (0, 2)
C21_Witness ==
    /\ pc = "tok_done"
    /\ Len(vertices) = 1
    /\ vertices[1][1] \in 0 .. (ImageSize - 1) /\ vertices[1][1] % BinWidth # 0
    /\ vertices[1][2] = ImageSize - 1
    /\ decoded[1][1] = vertices[1][1] - (vertices[1][1] % BinWidth)
    /\ decoded[1][2] = ImageSize - BinWidth


---------------------------------------------------------------------------
(* The score tensor of the drivers *)

\* score[i][j] = proj_a(feature)[i] + proj_b(feature)[j] for every sample
IsOuterSum(sc, f, nb) ==
    \A s \in Range(nb) : \A i \in Range(GenSlots) : \A j \in Range(GenSlots) :
        sc[s][i][j] = scorenet1(f, nb)[s][i] + scorenet2(f, nb)[s][j]

\* the score tensor is assigned only by the step that leaves the loop
C22_Step ==
    scores' # scores =>
        /\ pc = "gen_loop" /\ pc' = "assign"
        /\ ii = max_len
        /\ feats' = feats

\* no score tensor before the loop has ended; after it, the outer sum of the
\* two projections of the features of the last step
C22_State ==
    /\ pc \in {"gen", "gen_loop"} => scores = Idle
    /\ GenAfterLoop =>
          /\ feats.step = max_len - 1
          /\ IsOuterSum(scores, feats, x_size)

---------------------------------------------------------------------------
(* bubble_merge step by step, utils.py 116-132: the list is one object     *)
(* shared by the recursive calls; every call has its own s, t, P and head. *)

MaxAnyChains == 3       \* longest list of arbitrary chains
MaxAnyVertices == 2     \* vertex labels of the arbitrary chains

\* lists of arbitrary chains [u, v], self-loops and repetitions included
AnyChainLists ==
    UNION { [1 .. k -> [1 .. 2 -> Range(MaxAnyVertices)]] : k \in 0 .. MaxAnyChains }

\* the lists of line 153: the successor chains of the active slots, in order
PermChainLists ==
    UNION { { SuccessorChains(succ, k) : succ \in Derangements(k) } :
            k \in 2 .. MaxChains }

\* the locals of a call at its entry: "s = 0; P = len(poly)" (lines 117-118)
NewFrame(lst) == [s |-> 0, t |-> 0, P |-> Len(lst), head |-> 0, loc |-> "outer"]

Top == frames[Len(frames)]
SetTop(f) == SubSeq(frames, 1, Len(frames) - 1) \o <<f>>

InitSteps ==
    /\ pc = "merge"
    /\ poly \in AnyChainLists \cup PermChainLists
    /\ merged = Idle
    /\ work = Idle /\ frames = <<>> /\ splices = 0
    /\ scores = Idle /\ perm = Idle /\ b = 0
    /\ graph = Idle /\ out = Idle /\ polygons_idx = Idle /\ batch = Idle
    /\ EOS_idxs = Idle /\ all_coords = Idle /\ all_confs = Idle
    /\ batch_preds = Idle /\ batch_confs = Idle /\ ii = 0
    /\ GenIdle
    /\ PipeIdle
    /\ TokIdle
    /\ EvalIdle

\* the call of line 154
BmCall ==
    /\ pc = "merge"
    /\ work' = poly
    /\ frames' = <<NewFrame(poly)>>
    /\ pc' = "merging"
    /\ UNCHANGED <<scores, perm, b, polyvars, postvars, seqvars, genvars, pipevars,
                   tokvars, splices, evalvars>>

\* "while s < P" holds: "head = poly[s][-1]; t = s+1" (lines 119-122)
BmOuterBody ==
    /\ pc = "merging"
    /\ Top.loc = "outer"
    /\ Top.s < Top.P
    /\ frames' = SetTop([s |-> Top.s, t |-> Top.s + 1, P |-> Top.P,
                         head |-> Last(work[Top.s + 1]), loc |-> "inner"])
    /\ UNCHANGED <<pc, scores, perm, b, polyvars, postvars, seqvars, genvars, pipevars,
                   tokvars, work, splices, evalvars>>

\* "while t < P" holds and head == tail: splice, delete, and call
\* bubble_merge on the same list (lines 124-128)
BmSplice ==
    /\ pc = "merging"
    /\ Top.loc = "inner"
    /\ Top.t < Top.P
    /\ Top.head = Head(work[Top.t + 1])
    /\ work' = DelAt(Splice(work, Top.s, Top.t), Top.t)
    /\ splices' = splices + 1
    /\ frames' = Append(frames, NewFrame(DelAt(Splice(work, Top.s, Top.t), Top.t)))
    /\ UNCHANGED <<pc, scores, perm, b, polyvars, postvars, seqvars, genvars, pipevars,
                   tokvars, evalvars>>

\* "while t < P" holds and head != tail: "t += 1" (line 130)
BmSkip ==
    /\ pc = "merging"
    /\ Top.loc = "inner"
    /\ Top.t < Top.P
    /\ Top.head # Head(work[Top.t + 1])
    /\ frames' = SetTop([s |-> Top.s, t |-> Top.t + 1, P |-> Top.P,
                         head |-> Top.head, loc |-> "inner"])
    /\ UNCHANGED <<pc, scores, perm, b, polyvars, postvars, seqvars, genvars, pipevars,
                   tokvars, work, splices, evalvars>>

\* "while t < P" fails: "s += 1" (line 131)
BmInnerExit ==
    /\ pc = "merging"
    /\ Top.loc = "inner"
    /\ ~ (Top.t < Top.P)
    /\ frames' = SetTop([s |-> Top.s + 1, t |-> Top.t, P |-> Top.P,
                         head |-> Top.head, loc |-> "outer"])
    /\ UNCHANGED <<pc, scores, perm, b, polyvars, postvars, seqvars, genvars, pipevars,
                   tokvars, work, splices, evalvars>>

\* the caller's frame after a recursive call: "P = len(poly); t += 1"
\* (lines 129-130)
Resumed(f, lst) ==
    [s |-> f.s, t |-> f.t + 1, P |-> Len(lst), head |-> f.head, loc |-> "inner"]

\* "while s < P" fails in a recursive call: "return poly" to line 128
BmReturnInner ==
    /\ pc = "merging"
    /\ Len(frames) > 1
    /\ Top.loc = "outer"
    /\ ~ (Top.s < Top.P)
    /\ frames' = SubSeq(frames, 1, Len(frames) - 2)
                    \o <<Resumed(frames[Len(frames) - 1], work)>>
    /\ UNCHANGED <<pc, scores, perm, b, polyvars, postvars, seqvars, genvars, pipevars,
                   tokvars, work, splices, evalvars>>

\* "while s < P" fails in the first call: "return poly" to line 154
BmReturn ==
    /\ pc = "merging"
    /\ Len(frames) = 1
    /\ Top.loc = "outer"
    /\ ~ (Top.s < Top.P)
    /\ merged' = work
    /\ frames' = <<>>
    /\ pc' = "merge_done"
    /\ UNCHANGED <<scores, perm, b, poly, graph, out, polygons_idx, batch,
                   postvars, seqvars, genvars, pipevars, tokvars, work, splices, evalvars>>

NextSteps ==
    \/ BmCall
    \/ BmOuterBody
    \/ BmSplice
    \/ BmSkip
    \/ BmInnerExit
    \/ BmReturnInner
    \/ BmReturn

SpecSteps == InitSteps /\ [][NextSteps]_vars

\* the steps of bubble_merge are taken as long as one is possible
SpecStepsFair == SpecSteps /\ WF_vars(NextSteps)

\* the step-by-step run returns what the recursive definition gives
StepsAgreeWithRecursion == pc = "merge_done" => merged = bubble_merge(poly)

\* every splice shortens the list by one, and there are fewer splices than
\* initial chains
C23_SplicesBounded ==
    pc \in {"merging", "merge_done"} =>
        /\ Len(work) = Len(poly) - splices
        /\ Len(poly) > 0 => splices <= Len(poly) - 1
        /\ Len(poly) = 0 => splices = 0

\* C23: bubble_merge terminates on every finite list of chains; it makes at
\* most (number of initial chains - 1) splices, each of which shortens the
\* list by one.
C23_MergeTerminates == [] C23_SplicesBounded /\ <> (pc = "merge_done")

\* three equal chains [0, 0]: two splices leave one chain
C23_Witness ==
    /\ pc = "merge_done"
    /\ Len(poly) = 3
    /\ splices = 2
    /\ Len(merged) = 1


---------------------------------------------------------------------------
(* Claims on the successor relation of permutations_to_polygons *)

\* a tensor of k entries as the list of its entries (position p holds index p-1)
AsList(f, k) == SubSeq([p \in 1 .. k |-> f[p - 1]], 1, k)

\* a k x k matrix as the list of its rows
AsRows(m, k) == SubSeq([p \in 1 .. k |-> AsList(m[p - 1], k)], 1, k)

\* a list of k rows of k entries 0 or 1 with exactly one 1 in every row and
\* in every column
IsPermutationMatrix(rows, k) ==
    /\ \A p \in 1 .. k : \A q \in 1 .. k : rows[p][q] \in {0, 1}
    /\ \A p \in 1 .. k : Cardinality({ q \in 1 .. k : rows[p][q] = 1 }) = 1
    /\ \A q \in 1 .. k : Cardinality({ p \in 1 .. k : rows[p][q] = 1 }) = 1

\* b_perm of sample s after lines 146-148
ActivePerm(s) ==
    Restrict(perm[s], ActiveIdx(Diag(perm[s], SlotsOf(perm)), SlotsOf(perm)))

\* the number of active slots of sample s as the code counts them
ActiveCount(s) == Len(ActiveIdx(Diag(perm[s], SlotsOf(perm)), SlotsOf(perm)))

\* "second" of sample s (line 151)
ActiveSuccessor(s) == Successor(ActivePerm(s), ActiveCount(s))

\* C24: for every permutation matrix, b_perm restricted to the active rows
\* and columns is a permutation matrix with an all-zero diagonal, and the
\* per-row argmax is a bijection of the active slots without fixed point.
C24_ActiveSubmatrixIsDerangement ==
    pc = "poly_done" =>
        \A s \in Range(Len(polygons_idx)) :
            LET k    == ActiveCount(s)
                sub  == AsRows(ActivePerm(s), k)
                succ == AsList(ActiveSuccessor(s), k)
            IN  /\ IsPermutationMatrix(sub, k)
                /\ \A p \in 1 .. k : sub[p][p] = 0
                /\ \A p \in 1 .. k : sub[p][succ[p] + 1] = 1 /\ succ[p] # p - 1
                /\ \A j \in Range(k) : \E p \in 1 .. k : succ[p] = j
                /\ \A p \in 1 .. k : \A q \in 1 .. k : succ[p] = succ[q] => p = q

\* four slots, slot 1 a self-loop, the others the cycle 0 -> 2 -> 3 -> 0:
\* on the three active slots the successor is 0 -> 1 -> 2 -> 0
C24_Witness ==
    /\ pc = "poly_done"
    /\ SlotsOf(perm) = 4
    /\ perm[0][1][1] = 1
    /\ perm[0][0][2] = 1 /\ perm[0][2][3] = 1 /\ perm[0][3][0] = 1
    /\ ActiveCount(0) = 3
    /\ ActiveSuccessor(0) = (0 :> 1 @@ 1 :> 2 @@ 2 :> 0)
    /\ polygons_idx[1] = << <<0, 1, 2, 0>> >>


\* the slot each row of the permutation matrix of sample s points to, as a
\* list: position i + 1 holds the successor of slot i
PermFun(s) ==
    AsList([i \in Range(SlotsOf(perm)) |->
               CHOOSE j \in Range(SlotsOf(perm)) : perm[s][i][j] = 1],
           SlotsOf(perm))

\* the slots met from slot j on until the walk along f is back at slot i
RECURSIVE Orbit(_, _, _)
Orbit(f, i, j) == IF f[j + 1] = i THEN {j} ELSE {j} \cup Orbit(f, i, f[j + 1])

\* the cycle of f that slot i lies on
CycleOf(f, i) == Orbit(f, i, i)

\* the cycles of length >= 2 of f
LongCycles(f) ==
    { c \in { CycleOf(f, i) : i \in Range(Len(f)) } : Cardinality(c) >= 2 }

\* the active slots of sample s in ascending order, as a list
ActiveList(s) ==
    SelectSeq(SubSeq([p \in 1 .. SlotsOf(perm) |-> p - 1], 1, SlotsOf(perm)),
              LAMBDA i : perm[s][i][i] # 1)

\* the slots of a chain of relabelled indices, act being the active slots
RingSlots(act, chain) == { act[chain[q] + 1] : q \in 1 .. Len(chain) }

\* C25: the rings of a sample partition its active slots: every active slot
\* lies in exactly one ring, no inactive slot lies in a ring, and there are
\* as many rings as the permutation has cycles of length >= 2 (each ring is
\* one of these cycles).
C25_RingsPartitionActiveSlots ==
    pc = "poly_done" =>
        \A s \in Range(Len(polygons_idx)) :
            LET nr     == Len(polygons_idx[s + 1])
                act    == ActiveList(s)
                active == { act[p] : p \in 1 .. Len(act) }
                slots  == SubSeq([r \in 1 .. nr |->
                                     RingSlots(act, polygons_idx[s + 1][r])], 1, nr)
                cycles == LongCycles(PermFun(s))
            IN  /\ active = ActiveSlots(s)
                /\ \A i \in active :
                      Cardinality({ r \in 1 .. nr : i \in slots[r] }) = 1
                /\ \A r \in 1 .. nr : slots[r] \subseteq active
                /\ nr = Cardinality(cycles)
                /\ { slots[r] : r \in 1 .. nr } = cycles

\* six slots: slot 2 a self-loop, the cycles (0 1) and (3 4 5); two rings
C25_Witness ==
    /\ pc = "poly_done"
    /\ SlotsOf(perm) = 6
    /\ PermFun(0) = <<1, 0, 2, 4, 5, 3>>
    /\ Len(polygons_idx[1]) = 2
    /\ RingSlots(ActiveList(0), polygons_idx[1][1]) = {0, 1}
    /\ RingSlots(ActiveList(0), polygons_idx[1][2]) = {3, 4, 5}


---------------------------------------------------------------------------
(* Claims on the shape of the chains during and after the merge *)

\* the list bubble_merge was called with is the list of line 153 for some
\* permutation: chain p is [p-1, successor(p-1)]
IsPermInput == poly \in PermChainLists

\* the successor of relabelled slot u in that list
SuccOf(u) == poly[u + 1][2]

\* every consecutive pair of the chain is a (slot, successor) pair
IsSuccessorPath(c) ==
    /\ Len(c) >= 2
    /\ \A q \in 1 .. (Len(c) - 1) : c[q + 1] = SuccOf(c[q])

\* a cycle of k >= 2 slots as k+1 entries: the k slots, each once, then the
\* first slot again
IsClosedRing(c) ==
    /\ IsSuccessorPath(c)
    /\ c[Len(c)] = c[1]
    /\ Cardinality(ElemsOf(c)) = Len(c) - 1
    /\ Cardinality(ElemsOf(c)) >= 2

\* C26: for the chains of a permutation matrix, every chain is a successor
\* path at every point of the merge, and every chain returned is a ring
\* closed by repetition: the k slots of a cycle, then the first slot again,
\* with at least 2 distinct vertices.
C26_ChainsAreSuccessorPaths ==
    IsPermInput =>
        /\ pc \in {"merging", "merge_done"} =>
              \A p \in 1 .. Len(work) : IsSuccessorPath(work[p])
        /\ pc = "merge_done" =>
              \A p \in 1 .. Len(merged) : IsClosedRing(merged[p])

\* the cycles (0 1 2) and (3 4) in the middle of the merge: [0, 1, 2] is
\* already joined, [2, 0] not yet
C26_MidMerge ==
    /\ pc = "merging"
    /\ poly = << <<0, 1>>, <<1, 2>>, <<2, 0>>, <<3, 4>>, <<4, 3>> >>
    /\ work = << <<0, 1, 2>>, <<2, 0>>, <<3, 4>>, <<4, 3>> >>

\* the same input after the merge: two closed rings
C26_Witness ==
    /\ pc = "merge_done"
    /\ poly = << <<0, 1>>, <<1, 2>>, <<2, 0>>, <<3, 4>>, <<4, 3>> >>
    /\ merged = << <<0, 1, 2, 0>>, <<3, 4, 3>> >>
    /\ splices = 3


---------------------------------------------------------------------------
(* Claims on the order of the rings *)

\* the smallest slot of a non-empty set of slots
MinOf(S) == CHOOSE i \in S : \A l \in S : i <= l

\* C27: every ring starts at the lowest-indexed active slot of its cycle,
\* and the rings of a sample are listed in ascending order of their
\* starting slot.
C27_RingsStartLowAndAscend ==
    pc = "poly_done" =>
        \A s \in Range(Len(polygons_idx)) :
            LET nr     == Len(polygons_idx[s + 1])
                act    == ActiveList(s)
                starts == SubSeq([r \in 1 .. nr |-> act[polygons_idx[s + 1][r][1] + 1]],
                                 1, nr)
                f      == PermFun(s)
            IN  /\ \A r \in 1 .. nr :
                      LET cyc == CycleOf(f, starts[r])
                      IN  /\ starts[r] = MinOf(cyc)
                          /\ RingSlots(act, polygons_idx[s + 1][r]) = cyc
                /\ \A r \in 1 .. (nr - 1) : starts[r] < starts[r + 1]

\* six slots, slot 0 a self-loop, the cycles 1 -> 4 -> 2 -> 1 and 3 -> 5 -> 3:
\* the rings start at slots 1 and 3, in this order
C27_Witness ==
    /\ pc = "poly_done"
    /\ SlotsOf(perm) = 6
    /\ PermFun(0) = <<0, 4, 1, 5, 2, 3>>
    /\ polygons_idx[1] = << <<0, 3, 1, 0>>, <<2, 4, 2>> >>
    /\ ActiveList(0) = <<1, 2, 3, 4, 5>>


---------------------------------------------------------------------------
(* postprocess on two sequences that agree up to their first EOS,          *)
(* utils.py 274-293                                                        *)

PairVertices == 2       \* n_vertices of the runs that are compared

\* tokens a driver may append after the first EOS: a bin, EOS, PAD
TailTokens == {0, EOS_code, PAD_code}

\* sequences of a run of the given number of steps with only PAD after the
\* first EOS, or without EOS
CleanSequences(steps) ==
    UNION { { <<BOS_code>> \o pre \o <<EOS_code>> \o Padding(steps - k - 1) :
                pre \in [1 .. k -> {0, NumBins - 1}] } : k \in 0 .. (steps - 1) }
      \cup { <<BOS_code>> \o pre : pre \in [1 .. steps -> {0, NumBins - 1}] }

\* the sequences that are seq up to its first EOS and anything after it
SameUpToEOS(seq) ==
    LET at == { j \in 1 .. Len(seq) : seq[j] = EOS_code }
        e  == IF at = {} THEN Len(seq) ELSE CHOOSE j \in at : \A l \in at : j <= l
    IN  { SubSeq(seq, 1, e) \o tail : tail \in [1 .. (Len(seq) - e) -> TailTokens] }

\* a batch of two: a sequence, and one that agrees with it up to the first
\* EOS; both with the same captured confidences
InitPostPair ==
    /\ pc = "post"
    /\ \E seq \in CleanSequences(generation_steps_of(PairVertices)) :
          \E other \in SameUpToEOS(seq) :
             batch_preds = (0 :> seq @@ 1 :> other)
    /\ batch_confs = [j \in 1 .. (PairVertices + 1) |->
                         [s \in Range(2) |-> ConfValue(j - 1, 0)]]
    /\ EOS_idxs = Idle
    /\ all_coords = <<>>
    /\ all_confs = <<>>
    /\ ii = 0
    /\ scores = Idle /\ perm = Idle /\ b = 0
    /\ poly = Idle /\ merged = Idle
    /\ graph = Idle /\ out = Idle /\ polygons_idx = Idle /\ batch = Idle
    /\ GenIdle
    /\ PipeIdle
    /\ RestIdle

SpecPostPair == InitPostPair /\ [][NextPost]_vars

\* the sequences hold EOS at the same first index and are equal up to it,
\* or neither holds EOS
AgreeUpToFirstEOS(p, q) ==
    \/ /\ FirstEOS(p) > 0
       /\ FirstEOS(q) = FirstEOS(p)
       /\ SubSeq(q, 1, FirstEOS(p) + 1) = SubSeq(p, 1, FirstEOS(p) + 1)
    \/ FirstEOS(p) = 0 /\ FirstEOS(q) = 0

\* the two samples have the same captured confidences
SameCaptured(s, u) ==
    \A j \in 1 .. Len(batch_confs) : batch_confs[j][s] = batch_confs[j][u]

\* C28: the result of postprocess for a sample depends only on its tokens up
\* to and including the first EOS: two samples that agree up to their first
\* EOS (and have the same captured confidences) get the same coordinates
\* and the same confidences, whatever follows the first EOS.
C28_TailDoesNotMatter ==
    \A s \in Range(MaxBatch) : \A u \in Range(MaxBatch) :
        (/\ Processed(s) /\ Processed(u)
         /\ AgreeUpToFirstEOS(batch_preds[s], batch_preds[u])
         /\ SameCaptured(s, u))
        => /\ all_coords[s + 1] = all_coords[u + 1]
           /\ all_confs[s + 1] = all_confs[u + 1]

\* one vertex and EOS at index 3, followed by PAD, PAD in one sample and by
\* a bin and a second EOS in the other: the same vertex, the same confidence
C28_Witness ==
    /\ pc = "post_done"
    /\ batch_preds[0] = <<BOS_code, 0, NumBins - 1, EOS_code, PAD_code, PAD_code>>
    /\ batch_preds[1] = <<BOS_code, 0, NumBins - 1, EOS_code, 0, EOS_code>>
    /\ all_coords[1] # None
    /\ Len(all_coords[1].list) = 1
    /\ all_coords[2] = all_coords[1]
    /\ all_confs[2] = all_confs[1]
    /\ Len(all_confs[1].list) = 1


---------------------------------------------------------------------------
(* Claims on the output-format tag *)

\* C29: called with an output-format tag that is none of the five valid
\* ones, permutations_to_polygons never returns a ring list, whatever the
\* batch is.
C29_InvalidTagNeverReturns ==
    out \notin ValidOuts => pc # "poly_done"

\* what the code does with an invalid tag when no sample has an active
\* slot: it returns one empty ring list per sample
C29_InvalidTagReturned ==
    /\ pc = "poly_done"
    /\ out \notin ValidOuts
    /\ \A s \in Range(BatchOf(perm)) : AllSelfLoops(s)
    /\ batch = [s \in 1 .. BatchOf(perm) |-> <<>>]

---------------------------------------------------------------------------
(***************************************************************************)
(* Evaluation loops: compute_IoU_cIoU (hisup_eval_utils/metrics/cIoU.py)   *)
(* and compute_mask_metrics (topdig_eval_utils/metrics/                    *)
(* topdig_metrics_orig.py).  Both loop over the images of the prediction   *)
(* file, rasterise the image's prediction annotations into mask and its    *)
(* ground-truth annotations into mask_gti, and hand the two masks to the   *)
(* metric.  A mask is the set of its nonzero pixels.                       *)
(***************************************************************************)
MaxImages == 2
MaxAnns == 2

EvalFunctions == {"compute_IoU_cIoU", "compute_mask_metrics"}

Pixels == {0, 1}

\* cocomask.decode of a prediction polygon: a nonempty set of pixels.
DtMasks == { {p} : p \in Pixels }

\* The ground-truth side also accepts an empty segmentation, rasterised as
\* np.zeros (cIoU.py 81-83, topdig_metrics_orig.py 118-120).
GtMasks == DtMasks \cup { {} }

ListsUpTo(S, n) == UNION { [1 .. k -> S] : k \in 0 .. n }

EvalImages ==
    [dt : ListsUpTo(DtMasks, MaxAnns), gt : ListsUpTo(GtMasks, MaxAnns)]

\* A local variable that has not been assigned yet.
Unbound == [bound |-> FALSE, px |-> {}]

Bound(px) == [bound |-> TRUE, px |-> px]

\* coco.getImgIds(catIds=coco.getCatIds()) on the prediction file with its
\* single building category: the images that have a prediction annotation.
getImgIds(imgs) == SelectSeq(imgs, LAMBDA im : Len(im.dt) > 0)

\* for _idx, annotation in enumerate(annotations):
\*     if _idx == 0: mask = m  else: mask = mask + m
\* mask = mask != 0
\* With no annotation the loop body never runs and the variable keeps the
\* value it had before the loop.
RasterizeInto(prev, anns) ==
    IF Len(anns) = 0 THEN prev
    ELSE Bound(UNION { anns[q] : q \in 1 .. Len(anns) })

InitEval ==
    /\ pc = "eval"
    /\ evalfn \in EvalFunctions
    /\ \E all \in ListsUpTo(EvalImages, MaxImages) : images = getImgIds(all)
    /\ img_at = 1
    /\ mask_dt = Unbound
    /\ mask_gti = Unbound
    /\ scored = <<>>
    /\ scores = Idle /\ perm = Idle /\ b = 0
    /\ poly = Idle /\ merged = Idle
    /\ graph = Idle /\ out = Idle /\ polygons_idx = Idle /\ batch = Idle
    /\ EOS_idxs = Idle /\ all_coords = Idle /\ all_confs = Idle
    /\ batch_preds = Idle /\ batch_confs = Idle /\ ii = 0
    /\ GenIdle
    /\ PipeIdle
    /\ TokIdle
    /\ StepIdle

\* One iteration of `for image_id in bar` that reaches the metric.
EvalImage(fn) ==
    /\ pc = "eval"
    /\ evalfn = fn
    /\ img_at <= Len(images)
    /\ LET img == images[img_at]
           m   == RasterizeInto(mask_dt, img.dt)
           g   == RasterizeInto(mask_gti, img.gt)
       IN  /\ m.bound
           /\ g.bound
           /\ mask_dt' = m
           /\ mask_gti' = g
           /\ scored' = Append(scored, [img |-> img, mask |-> m.px, mask_gti |-> g.px])
    /\ img_at' = img_at + 1
    /\ UNCHANGED <<pc, scores, perm, b, polyvars, postvars, seqvars, genvars, pipevars,
                   tokvars, stepvars, evalfn, images>>

\* `mask = mask != 0` or `mask_gti = mask_gti != 0` reads a variable that no
\* iteration has assigned: UnboundLocalError ends the function.
EvalUnbound(fn) ==
    /\ pc = "eval"
    /\ evalfn = fn
    /\ img_at <= Len(images)
    /\ LET img == images[img_at]
           m   == RasterizeInto(mask_dt, img.dt)
           g   == RasterizeInto(mask_gti, img.gt)
       IN  /\ ~ (m.bound /\ g.bound)
           /\ mask_dt' = m
    /\ pc' = "eval_error"
    /\ UNCHANGED <<scores, perm, b, polyvars, postvars, seqvars, genvars, pipevars,
                   tokvars, stepvars, evalfn, images, img_at, mask_gti, scored>>

\* The loop is exhausted; the means are taken over the scored images.
EvalReturn(fn) ==
    /\ pc = "eval"
    /\ evalfn = fn
    /\ img_at > Len(images)
    /\ pc' = "eval_done"
    /\ UNCHANGED <<scores, perm, b, polyvars, postvars, seqvars, genvars, pipevars,
                   tokvars, stepvars, evalvars>>

compute_IoU_cIoU ==
    \/ EvalImage("compute_IoU_cIoU")
    \/ EvalUnbound("compute_IoU_cIoU")
    \/ EvalReturn("compute_IoU_cIoU")

compute_mask_metrics ==
    \/ EvalImage("compute_mask_metrics")
    \/ EvalUnbound("compute_mask_metrics")
    \/ EvalReturn("compute_mask_metrics")

NextEval ==
    \/ compute_IoU_cIoU
    \/ compute_mask_metrics

SpecEval == InitEval /\ [][NextEval]_vars

\* The pixels covered by an image's own annotations on one side.
OwnMask(anns) == UNION { anns[q] : q \in 1 .. Len(anns) }

\* C30: in compute_IoU_cIoU and compute_mask_metrics the prediction mask
\* and the ground-truth mask used to score an image are built only from
\* that image's own annotations; no mask of an earlier image carries over
\* to a later image without annotations on that side.
C30_MasksFromOwnAnnotations ==
    pc \in {"eval", "eval_done", "eval_error"} =>
        \A k \in 1 .. Len(scored) :
            /\ scored[k].mask = OwnMask(scored[k].img.dt)
            /\ scored[k].mask_gti = OwnMask(scored[k].img.gt)

\* The second image has predictions and no ground-truth annotation, and is
\* scored against the ground-truth mask of the first image.
C30_MaskCarriedOver ==
    /\ pc = "eval_done"
    /\ Len(scored) = 2
    /\ Len(scored[2].img.gt) = 0
    /\ scored[1].mask_gti # {}
    /\ scored[2].mask_gti = scored[1].mask_gti

===========================================================================
